---- MODULE Spec2Model ----
(***************************************************************************)
(* Calendar cache / synchronisation subsystem of the meal planner          *)
(* (backend/app/ical_service.py).                                          *)
(*                                                                         *)
(* Dates are day numbers, timestamps are day * SlotsPerDay + slot.         *)
(* Storage is the committed content of cached_calendar_events and          *)
(* calendar_cache_metadata; every SessionLocal() is a transaction whose    *)
(* DELETE statement acts on the rows committed when it runs and whose      *)
(* pending INSERTs / metadata UPDATE become visible at db.commit()         *)
(* (PostgreSQL, config.py database_url; autoflush off).                    *)
(***************************************************************************)
EXTENDS Integers, Sequences, FiniteSets, TLC

(* ---------------------------- bounds ---------------------------------- *)
SlotsPerDay == 2
Day0 == 30
MaxDays == 1
MaxVer == 3
MaxTicks == 1
MaxChanges == 1
MaxOps == 3
QueueCap == 2
MaxPublish == 3
MaxCloses == 2
MaxCycles == 2
MaxPosts == 3
MaxSchedTicks == 4
UnitsPerSec == 2
MaxSecs == 62
MaxAuthTicks == 1
MaxReqs == 2

MaxWorkerPublishes == 1  \* publish() calls made from a worker thread
MaxResolves == 2         \* calls of _get_selected_calendars_sync in one run
MaxRestarts == 1         \* process restarts (configuration changes)
MaxSelChanges == 1       \* changes of the upstream calendar list / reachability
MaxSelTicks == 2         \* clock steps in the selection runs
MaxStreamPublishes == 1  \* publish() calls while streams are followed step by step
MaxPings == 1            \* timeouts of asyncio.wait per stream
SelTicksPerTtl == 2      \* clock steps per CALENDAR_CACHE_TTL
MaxSpan == 2             \* days before and after ProbeDay a call may name

(* ------------------------ program constants --------------------------- *)
CACHE_WEEKS_BEFORE == 4
CACHE_WEEKS_AFTER == 8
CALENDAR_CACHE_TTL == 600
CACHE_REFRESH_INTERVAL == 1800
TOKEN_REVALIDATION_INTERVAL == 60

\* the scheduler task and a request handler, each one call at a time
Procs == {"sched", "req"}
Requesters == {"req"}

NoMeta == [present |-> FALSE, last_refresh |-> 0, cache_start |-> 0, cache_end |-> 0]

(* ----------------------- upstream (CalDAV) world ---------------------- *)
UpstreamCalendars == <<"Personal", "Work">>

Ts(day, slot) == day * SlotsPerDay + slot

\* The occurrences upstream may hold.  Starts are pairwise distinct.
EventUniverse ==
  { [cal |-> "Personal", title |-> "P1", start |-> Ts(Day0 - 29, 1), end |-> Ts(Day0 - 29, 1)],
    [cal |-> "Work",     title |-> "W1", start |-> Ts(Day0 - 29, 0), end |-> Ts(Day0 - 28, 0)],
    [cal |-> "Personal", title |-> "P2", start |-> Ts(Day0 - 28, 1), end |-> Ts(Day0 - 28, 1)],
    [cal |-> "Work",     title |-> "W2", start |-> Ts(Day0 + 57, 0), end |-> Ts(Day0 + 57, 0)] }

\* The (start_date, end_date) a request may ask for: inside the first window,
\* across its start, across both ends, its first day, the day after its end.
ReqRanges ==
  { <<Day0 - 27, Day0 + 56>>, <<Day0 - 29, Day0 - 27>>, <<Day0 - 29, Day0 + 57>>,
    <<Day0 - 28, Day0 - 28>>, <<Day0 + 57, Day0 + 57>> }

SettingsChoices ==
  { [creds |-> TRUE, names |-> <<"Personal", "Work">>],
    [creds |-> TRUE, names |-> <<>>] }

Outages == {"none", "Work", "all"}

VARIABLES
  today,            \* date.today()
  now,              \* time.time() / datetime.utcnow()
  settings,         \* get_settings(): credentials present, apple_calendar_names
  upstream,         \* occurrences currently held by the CalDAV server
  outage,           \* which upstream calls raise: "none", one calendar, "all"
  calendars_cache,  \* _calendars_cache = (time, calendars)
  rows,             \* committed rows of cached_calendar_events
  meta,             \* committed row of calendar_cache_metadata
  loc,              \* per worker: position and locals of the running call
  prevF,            \* history: the previous completed fetch
  quiet,            \* history: a refresh that ran alone was the last thing to happen
  changes,          \* history: number of environment changes so far
  ops,              \* history: number of calls started so far
  \* ical_service.py: calendar selection
  principal,        \* the calendars client.principal().calendars() lists
  resolved,         \* history: the last _get_selected_calendars_sync() call
  \* realtime.py: the EventBroadcaster
  queue,            \* content of every asyncio.Queue handed out by subscribe()
  registered,       \* EventBroadcaster._queues
  closed,           \* EventBroadcaster._closed
  qinfo,            \* history per queue: handed out, read from, sentinel read
  bhist,            \* history: payloads published, calls made
  wpub,             \* the publish() that runs on a worker thread: position, locals
  \* routers/calendar.py, ical_service.py, main.py: scheduler, manual refresh, lifespan
  refresh_in_progress,  \* _refresh_in_progress
  refresh_task,     \* _refresh_task: "none" or the handle of the loop task
  init_pc,          \* position of the initialize_cache() task
  loop_pc,          \* position of the _background_refresh_loop() task
  loop_cancel,      \* Task.cancel() was called on the loop task and is not yet delivered
  shut_pc,          \* position of the lifespan: up, awaiting, returned
  jobs,             \* the refreshes the scheduler has handed to the executor
  man,              \* per manual trigger: position of its request / background task
  sclock,           \* event-loop time
  wake,             \* when the running asyncio.sleep ends
  shist,            \* history: cycles, posts, what the loop did
  \* auth.py: the session of a request and the clock
  session,          \* request.session
  atime,            \* time.time(), in 1 / UnitsPerSec seconds
  req,              \* the request in flight: position, locals, history
  \* ical_service.py: one call of a function of its arguments alone
  probe,            \* the arguments of the latest call and what it returned
  \* routers/realtime.py: the handlers of GET /api/stream
  hs,               \* per queue: position of stream_events / event_generator, frames sent
  shutdown_event    \* realtime.shutdown_event is set

calVars == <<today, now, settings, upstream, outage, calendars_cache,
             rows, meta, loc, prevF, quiet, changes, ops>>

selVars == <<principal, resolved>>

bcVars == <<queue, registered, closed, qinfo, bhist, wpub>>

schedVars == <<refresh_in_progress, refresh_task, init_pc, loop_pc, loop_cancel,
               shut_pc, jobs, man, sclock, wake, shist>>

authVars == <<session, atime, req>>

fnVars == <<probe>>

strVars == <<hs, shutdown_event>>

vars == <<calVars, selVars, bcVars, schedVars, authVars, fnVars, strVars>>

(* ------------------------------ helpers ------------------------------- *)
Min(a, b) == IF a <= b THEN a ELSE b
Max(a, b) == IF a >= b THEN a ELSE b

Range(f) == { f[i] : i \in DOMAIN f }

\* datetime.date() of a timestamp
DateOf(ts) == ts \div SlotsPerDay

\* datetime.combine(d, datetime.min.time()) / datetime.combine(d, datetime.max.time())
DayStart(d) == d * SlotsPerDay
DayEnd(d) == d * SlotsPerDay + (SlotsPerDay - 1)

RECURSIVE SetToSeq(_)
SetToSeq(S) ==
  IF S = {} THEN <<>>
  ELSE LET x == CHOOSE y \in S : TRUE
       IN <<x>> \o SetToSeq(S \ {x})

RECURSIVE SelectSeqBy(_, _)
\* list comprehension [x for x in seq if x in S]
SelectSeqBy(seq, S) ==
  IF seq = <<>> THEN <<>>
  ELSE (IF Head(seq) \in S THEN <<Head(seq)>> ELSE <<>>) \o SelectSeqBy(Tail(seq), S)

\* list.sort(key=start_time): stable insertion of x into a sorted list
RECURSIVE InsertByStart(_, _)
InsertByStart(x, seq) ==
  IF seq = <<>> THEN <<x>>
  ELSE IF x.start < Head(seq).start
       THEN <<x>> \o seq
       ELSE <<Head(seq)>> \o InsertByStart(x, Tail(seq))

RECURSIVE SortByStart(_)
SortByStart(seq) ==
  IF seq = <<>> THEN <<>>
  ELSE InsertByStart(seq[Len(seq)], SortByStart(SubSeq(seq, 1, Len(seq) - 1)))

\* CalendarEvent(title, start_time, end_time) without the source calendar
ToCalendarEvent(e) == [title |-> e.title, start |-> e.start, end |-> e.end]

MapEvents(seq) == [i \in DOMAIN seq |-> ToCalendarEvent(seq[i])]


(* --------------------- exceptions as return values -------------------- *)
Ok(v) == [ok |-> TRUE, val |-> v]
Raise == [ok |-> FALSE, val |-> <<>>]

\* try: ... except Exception: return dflt
Catch(r, dflt) == IF r.ok THEN r.val ELSE dflt

(* ------------------------- upstream client ---------------------------- *)
\* client.principal().calendars(): the network call of _get_all_calendars_sync
PrincipalCalendars(out) ==
  IF out = "all" THEN Raise ELSE Ok(principal)

\* _get_all_calendars_sync without its try / except
GetAllCalendars_NoCatch(st, out) ==
  IF ~st.creds THEN Ok(<<>>) ELSE PrincipalCalendars(out)

\* _get_all_calendars_sync
GetAllCalendars(st, out) ==
  IF ~st.creds THEN Ok(<<>>)
  ELSE Ok(Catch(PrincipalCalendars(out), <<>>))

\* [name.strip() for name in apple_calendar_names.split(",") if name.strip()]
SelectedNames(st) == SelectSeqBy(st.names, {n \in Range(st.names) : n # ""})

\* a cache test that still trusts a cache of exactly CALENDAR_CACHE_TTL seconds
CacheUsable_InclusiveTtl(cache, t, names) ==
  /\ cache.cals # <<>>
  /\ (t - cache.time) <= CALENDAR_CACHE_TTL
  /\ IF names # <<>>
     THEN Range(cache.cals) = {n \in Range(names) : n \in Range(cache.cals)}
     ELSE Len(cache.cals) = 1

\* the cache test of _get_selected_calendars_sync (lines 112-125)
CacheUsable(cache, t, names) ==
  /\ cache.cals # <<>>
  /\ (t - cache.time) < CALENDAR_CACHE_TTL
  /\ IF names # <<>>
     THEN Range(cache.cals) = {n \in Range(names) : n \in Range(cache.cals)}
     ELSE Len(cache.cals) = 1

\* a name filter without the fallback to the first calendar
FilterCalendars_NoFallback(all, names) ==
  IF names # <<>> THEN SelectSeqBy(all, Range(names)) ELSE <<all[1]>>

\* the name filter of _get_selected_calendars_sync (lines 136-149)
FilterCalendars(all, names) ==
  IF names # <<>>
  THEN LET sel == SelectSeqBy(all, Range(names))
       IN IF sel = <<>> THEN <<all[1]>> ELSE sel
  ELSE <<all[1]>>

\* _get_selected_calendars_sync: the calendars returned, the new
\* _calendars_cache, and whether _get_all_calendars_sync was called
GetSelectedCalendars(cache, t, st, out) ==
  LET names == SelectedNames(st) IN
  IF CacheUsable(cache, t, names)
  THEN [ok |-> TRUE, val |-> cache.cals, cache |-> cache, enum |-> FALSE]
  ELSE LET r == GetAllCalendars(st, out) IN
       IF ~r.ok THEN [ok |-> FALSE, val |-> <<>>, cache |-> cache, enum |-> TRUE]
       ELSE IF r.val = <<>> THEN [ok |-> TRUE, val |-> <<>>, cache |-> cache, enum |-> TRUE]
       ELSE LET sel == FilterCalendars(r.val, names)
            IN [ok |-> TRUE, val |-> sel, cache |-> [time |-> t, cals |-> sel],
                enum |-> TRUE]

\* calendar.search(start=start_dt, end=end_dt, event=True, expand=True):
\* the occurrences of one calendar that overlap the time range
Search(up, out, cal, start_dt, end_dt) ==
  IF out \in {"all", cal} THEN Raise
  ELSE Ok(SetToSeq({ev \in up : ev.cal = cal /\ ev.start <= end_dt /\ ev.end >= start_dt}))

\* the data of an entry that Calendar.from_ical rejects
Unparsable == "not-ical"

\* Calendar.from_ical(caldav_event.data), lines 201-202
ParseEntry(ev) == IF ev.title = Unparsable THEN Raise ELSE Ok(ev)

\* calendar_name = calendar.name or "Unknown" (line 183)
CalendarName(cal) == IF cal = "" THEN "Unknown" ELSE cal

\* the loop body without the range filter of lines 217-218
EventsOfCalendar_NoFilter(up, out, cal, start_date, end_date) ==
  LET found == Search(up, out, cal, DayStart(start_date), DayEnd(end_date))
  IN IF ~found.ok THEN <<>> ELSE found.val

\* the loop body over one calendar (lines 183-233): search, parse, range filter
EventsOfCalendar(up, out, cal, start_date, end_date) ==
  LET found == Search(up, out, cal, DayStart(start_date), DayEnd(end_date))
      inRange == {ev \in Range(found.val) :
                    /\ ParseEntry(ev).ok
                    /\ ~(DateOf(ev.start) < start_date \/ DateOf(ev.start) > end_date)}
      kept == SelectSeqBy(found.val, inRange)
  IN IF ~found.ok THEN <<>>
     ELSE [i \in DOMAIN kept |-> [kept[i] EXCEPT !.cal = CalendarName(cal)]]

RECURSIVE EventsOfCalendars(_, _, _, _, _)
EventsOfCalendars(up, out, cals, start_date, end_date) ==
  IF cals = <<>> THEN <<>>
  ELSE EventsOfCalendar(up, out, Head(cals), start_date, end_date)
         \o EventsOfCalendars(up, out, Tail(cals), start_date, end_date)

\* a loop in which the failure of one search ends the fetch with nothing
FetchLoop_AbortsOnFailure(up, out, cals, start_date, end_date) ==
  IF \E i \in DOMAIN cals :
       ~Search(up, out, cals[i], DayStart(start_date), DayEnd(end_date)).ok
  THEN <<>>
  ELSE SortByStart(EventsOfCalendars(up, out, cals, start_date, end_date))

\* the loop over the selected calendars and the sort (lines 175-240)
FetchLoop(up, out, cals, start_date, end_date) ==
  SortByStart(EventsOfCalendars(up, out, cals, start_date, end_date))

\* _fetch_events_from_caldav: events with source, sorted by start time, and
\* the new _calendars_cache
FetchEventsFromCaldav(cache, t, st, up, out, start_date, end_date) ==
  LET c == GetSelectedCalendars(cache, t, st, out) IN
  IF ~c.ok THEN [ok |-> FALSE, val |-> <<>>, cache |-> c.cache, cals |-> <<>>]
  ELSE IF c.val = <<>> THEN [ok |-> TRUE, val |-> <<>>, cache |-> c.cache, cals |-> <<>>]
  ELSE [ok |-> TRUE,
        val |-> FetchLoop(up, out, c.val, start_date, end_date),
        cache |-> c.cache, cals |-> c.val]

(* ------------------------------ storage ------------------------------- *)
\* _get_cache_range
GetCacheRange(d) ==
  [start |-> d - 7 * CACHE_WEEKS_BEFORE, end |-> d + 7 * CACHE_WEEKS_AFTER]

\* the range filter with an exclusive start
RowsInRange_Exclusive(rs, start, end) == {r \in rs : r.date > start /\ r.date <= end}

\* filter(event_date >= start, event_date <= end)
RowsInRange(rs, start, end) == {r \in rs : r.date >= start /\ r.date <= end}

\* a row filed under the day its event ends
MakeRow_EndDate(ev, ver) ==
  [date |-> DateOf(ev.end), cal |-> ev.cal, title |-> ev.title,
   start |-> ev.start, end |-> ev.end, ver |-> ver]

\* CachedCalendarEvent(event_date=start_time.date(), calendar_name=..., ...)
MakeRow(ev, ver) ==
  [date |-> DateOf(ev.start), cal |-> ev.cal, title |-> ev.title,
   start |-> ev.start, end |-> ev.end, ver |-> ver]

NewRows(events, ver) == {MakeRow(events[i], ver) : i \in DOMAIN events}

\* identity of the rows of the next INSERT: unused by any committed row and
\* by any row a running transaction has selected for deletion
FreshVer(rs, l) ==
  CHOOSE v \in 1..(MaxVer + 1) :
    /\ \A r \in rs \cup UNION {l[p].del : p \in Procs} : r.ver # v
    /\ \A w \in 1..(v - 1) : \E r \in rs \cup UNION {l[p].del : p \in Procs} : r.ver = w

\* the read with an exclusive end date
GetEventsFromDb_ExclusiveEnd(rs, start_date, end_date) ==
  MapEvents(SortByStart(SetToSeq({r \in rs : r.date >= start_date /\ r.date < end_date})))

\* _get_events_from_db: rows of the range ordered by start_time
GetEventsFromDb(rs, start_date, end_date) ==
  MapEvents(SortByStart(SetToSeq(RowsInRange(rs, start_date, end_date))))

\* _get_cache_metadata
GetCacheMetadata(m) ==
  IF m.present THEN [has |-> TRUE, cs |-> m.cache_start, ce |-> m.cache_end]
  ELSE [has |-> FALSE, cs |-> 0, ce |-> 0]


(* --------------------- EventBroadcaster (realtime.py) ----------------- *)
\* the asyncio.Queue objects subscribe() can hand out
QueueIds == {"q1", "q2"}

\* _format_sse(payload): the frame that carries the payload
FormatSSE(payload) == [none |-> FALSE, data |-> payload]

\* the close sentinel None
NoneMsg == [none |-> TRUE, data |-> 0]

\* asyncio.Queue.put_nowait: raises QueueFull on a full queue
PutNowait(q, x) == IF Len(q) >= QueueCap THEN Raise ELSE Ok(Append(q, x))

\* asyncio.Queue.get_nowait: raises QueueEmpty on an empty queue; val is what is left
GetNowait(q) == IF q = <<>> THEN Raise ELSE Ok(Tail(q))

\* a publish that drops the new message when the queue is full
PublishTo_DropNewest(q, message) ==
  LET r == PutNowait(q, message) IN
  IF r.ok THEN [dead |-> FALSE, q |-> r.val] ELSE [dead |-> FALSE, q |-> q]

\* publish(), the body of the loop over one queue (lines 37-46)
PublishTo(q, message) ==
  LET r == PutNowait(q, message) IN
  IF r.ok THEN [dead |-> FALSE, q |-> r.val]
  ELSE LET g == GetNowait(q) IN
       IF ~g.ok THEN [dead |-> TRUE, q |-> q]
       ELSE LET r2 == PutNowait(g.val, message) IN
            IF r2.ok THEN [dead |-> FALSE, q |-> r2.val]
            ELSE [dead |-> TRUE, q |-> g.val]

\* a publish that does not look at _closed
PublishAll_NoClosedCheck(qs, reg, isClosed, payload) ==
  LET message == FormatSSE(payload)
      res == [q \in reg |-> PublishTo(qs[q], message)]
  IN [queue |-> [q \in QueueIds |-> IF q \in reg THEN res[q].q ELSE qs[q]],
      registered |-> reg \ {q \in reg : res[q].dead}]

\* publish(payload): the queues and the subscriber set it leaves
PublishAll(qs, reg, isClosed, payload) ==
  IF isClosed THEN [queue |-> qs, registered |-> reg]
  ELSE LET message == FormatSSE(payload)
           res == [q \in reg |-> PublishTo(qs[q], message)]
       IN [queue |-> [q \in QueueIds |-> IF q \in reg THEN res[q].q ELSE qs[q]],
           registered |-> reg \ {q \in reg : res[q].dead}]

\* a close that gives up on a full queue
CloseQueue_NoRoom(q) == Catch(PutNowait(q, NoneMsg), q)

\* close(), the loop over one queue (lines 55-66): put the sentinel, making room
RECURSIVE CloseQueue(_)
CloseQueue(q) ==
  LET r == PutNowait(q, NoneMsg) IN
  IF r.ok THEN r.val
  ELSE LET g == GetNowait(q) IN
       IF ~g.ok THEN q ELSE CloseQueue(g.val)

\* close(): the queues and the flag it leaves
CloseAll(qs, reg, isClosed) ==
  IF isClosed THEN [queue |-> qs, closed |-> TRUE]
  ELSE [queue |-> [q \in QueueIds |-> IF q \in reg THEN CloseQueue(qs[q]) ELSE qs[q]],
        closed |-> TRUE]

\* a subscribe that does not look at _closed
NewQueue_Empty(isClosed) == <<>>

\* subscribe(): the content of the new queue (lines 19-24)
NewQueue(isClosed) == IF isClosed THEN Catch(PutNowait(<<>>, NoneMsg), <<>>) ELSE <<>>

NoQInfo == [created |-> FALSE, live |-> FALSE, since |-> 0, nread |-> 0,
            gotNone |-> FALSE, atClose |-> FALSE, fullAtClose |-> FALSE, late |-> FALSE]

NoBHist == [published |-> <<>>, npub |-> 0, nclose |-> 0]

\* publish() on a worker thread, not running.  pc: idle | iter | done | raised
NoWPub == [pc |-> "idle", payload |-> 0,
           started |-> FALSE,\* the for loop has made its iterator
           size0 |-> 0,      \* len(self._queues) when the iterator was made
           seen |-> {},      \* queues the iteration has yielded
           dead |-> {},      \* the local set dead
           \* history, for the properties
           stay |-> {},      \* queues registered from the start of the call until now
           got |-> {},       \* queues the message was put into
           n |-> 0]          \* calls so far

\* the broadcaster as constructed (line 69), no stream open
BcRest ==
  /\ queue = [q \in QueueIds |-> <<>>]
  /\ registered = {}
  /\ closed = FALSE
  /\ qinfo = [q \in QueueIds |-> NoQInfo]
  /\ bhist = NoBHist
  /\ wpub = NoWPub

(* ------------- scheduler, manual refresh, lifespan: state ------------- *)
\* the refreshes the scheduler hands to the executor: initialize_cache's and the loop's
SchedJobs == {"startup", "cycle"}

\* the requests POST /api/calendar/refresh that may be in flight
Manual == {"m1", "m2"}

IdleMan == [pc |-> "idle", resp |-> "none"]

NoSHist == [cycles |-> 0, posts |-> 0, ticks |-> 0, failed |-> FALSE, slept |-> FALSE,
            startups |-> 0,     \* refreshes initialize_cache has started
            startupEnd |-> -1,  \* the clock when the startup refresh ended (-1: not yet)
            cancelAt |-> -1]    \* the clock when shutdown_cache cancelled the loop task

\* the process before the lifespan starts: no task, flag clear
SchedRest ==
  /\ refresh_in_progress = FALSE
  /\ refresh_task = "none"
  /\ init_pc = "none"
  /\ loop_pc = "none"
  /\ loop_cancel = FALSE
  /\ shut_pc = "up"
  /\ jobs = [j \in SchedJobs |-> "idle"]
  /\ man = [m \in Manual |-> IdleMan]
  /\ sclock = 0
  /\ wake = 0
  /\ shist = NoSHist

(* ---------------------- calendar selection: state --------------------- *)
\* no _get_selected_calendars_sync() call yet
NoResolved == [n |-> 0,              \* calls so far
               names |-> <<>>,       \* selected_names of the call
               cache0 |-> [time |-> 0, cals |-> <<>>],  \* _calendars_cache it found
               t |-> 0,              \* time.time() of the call
               all |-> <<>>,         \* what _get_all_calendars_sync returned
               enum |-> FALSE,       \* _get_all_calendars_sync was called
               val |-> <<>>,         \* the list returned
               cache1 |-> [time |-> 0, cals |-> <<>>],  \* _calendars_cache it left
               up |-> <<>>,          \* the calendars upstream had at the call
               reach |-> FALSE,      \* credentials set and upstream reachable at the call
               renamed |-> FALSE,    \* the configured names changed since the last call
               afterRename |-> FALSE,\* ... and this call was the first after the change
               restarts |-> 0, changes |-> 0, ticks |-> 0]

SelRest ==
  /\ principal = UpstreamCalendars
  /\ resolved = NoResolved

(* ----------------------- authentication: state ------------------------ *)
\* request.session without a login
NoSession == [user |-> "", access_token |-> "", refresh_token |-> "",
              has_ts |-> FALSE, token_validated_at |-> 0]

\* pc: idle | userinfo | token | done
IdleReq == [pc |-> "idle", kind |-> "none",
            issuer |-> FALSE,          \* settings.oidc_issuer is set
            result |-> "none",         \* user | 401 | None
            \* history of the request, for the properties
            s0 |-> NoSession,          \* the session when the request began
            checked |-> FALSE,         \* _needs_revalidation was called
            needs |-> FALSE,           \* what it returned
            tcheck |-> 0,              \* the clock when it was called
            calls |-> <<>>,            \* requests sent to the provider
            uiStatus |-> 0,            \* userinfo: 0 none, -1 network error, else status
            validated |-> "none",      \* what _validate_token returned
            refreshes |-> 0,           \* calls of _try_refresh_token
            refreshed |-> "none",      \* what _try_refresh_token returned
            cleared |-> FALSE,         \* session.clear() ran
            sref |-> NoSession,        \* the session when _try_refresh_token was called
            sret |-> NoSession,        \* the session when it returned
            tok |-> [err |-> FALSE, status |-> 0, access |-> "", refresh |-> ""],
                                       \* the token endpoint's answer (status 0: none)
            tnow |-> 0,                \* the clock when that answer arrived
            tui |-> 0,                 \* the clock when userinfo answered
            last |-> [how |-> "none", t |-> 0],
                                       \* the latest earlier request that renewed the
                                       \* timestamp: by userinfo | refresh, and when
            ticks |-> 0, n |-> 0]      \* clock steps and requests so far

AuthRest ==
  /\ session = NoSession
  /\ atime = 0
  /\ req = IdleReq

(* ------------------------ stream handlers: state --------------------- *)
\* pc: none | new (subscribed, generator not started) | top (line 25) |
\*     wait (line 29) | ended
NoHandler == [pc |-> "none",
              gone |-> FALSE,     \* the client has disconnected
              out |-> <<>>,       \* the frames the generator has yielded
              pings |-> 0,        \* timeouts of asyncio.wait so far
              \* history, for the properties
              why |-> "none",     \* what ended it: sentinel | shutdown | disconnect | cancel
              sentAtEnd |-> 0]    \* frames yielded when it saw what ended it

StrRest ==
  /\ hs = [q \in QueueIds |-> NoHandler]
  /\ shutdown_event = FALSE

(* --------------------- functions of their arguments ------------------- *)
\* no call yet
NoProbe == [op |-> "none"]

FnRest == probe = NoProbe

(* ------------------------- worker-local state ------------------------- *)
\* pc: idle | call | delete | meta | commit | hit | overlap | ret
\* stage: which fetch-and-cache the worker is in (refresh | miss | pre | post)
IdleLoc ==
  [pc |-> "idle", op |-> "none", stage |-> "none",
   s |-> 0, e |-> 0,              \* start_date, end_date of the request
   has |-> FALSE, cs |-> 0, ce |-> 0,   \* cache_start, cache_end as loaded
   fs |-> 0, fe |-> 0,            \* range of the running upstream fetch / transaction
   events |-> <<>>,               \* events_with_source
   del |-> {},                    \* rows hit by the transaction's DELETE
   metaSeen |-> FALSE,            \* metadata row found by the transaction
   acc |-> <<>>,                  \* events / return value
   raised |-> FALSE,              \* an exception left the call
   \* history of the call, for the properties
   calls |-> <<>>,                \* ranges asked from upstream
   reads |-> <<>>,                \* ranges read from storage
   wrote |-> FALSE,               \* a transaction of the call committed
   clean |-> TRUE,                \* no upstream failure and no rollback so far
   allDown |-> TRUE,              \* every upstream call so far met an unreachable upstream
   fresh |-> {},                  \* what upstream offered in the ranges asked
   stored |-> {},                 \* the rows storage held in the ranges read
   sawOpenTxn |-> FALSE,          \* a read happened between another DELETE and its commit
   day |-> 0,                     \* date.today() when the call began
   sameUp |-> TRUE,               \* no upstream change since the call began
   noRefresh |-> TRUE,            \* no refresh committed since the call began
   noCommit |-> TRUE,             \* no transaction committed since the call began
   alone |-> FALSE,               \* refresh: nothing else changed the world since it began
   second |-> FALSE]              \* refresh: began right after a refresh that ran alone

NoPrev == [valid |-> FALSE, good |-> FALSE, s |-> 0, e |-> 0, res |-> {}, inWindow |-> FALSE,
           sameUp |-> FALSE, noRefresh |-> FALSE, noCommit |-> FALSE]

\* what the selected, reachable calendars hold with a date in [s, e]
Offered(cals, up, out, s, e) ==
  {ev \in up : /\ ev.cal \in Range(cals)
               /\ out \notin {"all", ev.cal}
               /\ DateOf(ev.start) >= s /\ DateOf(ev.start) <= e}

\* history bookkeeping: a previous fetch nothing can be compared with is dropped
Forget(pf) == IF pf.valid /\ pf.noRefresh THEN pf ELSE NoPrev

\* history bookkeeping: a transaction of worker p committed
NoteCommit(l, p, isRefresh) ==
  [q \in Procs |->
     [l[q] EXCEPT !.noCommit = FALSE,
                  !.noRefresh = IF isRefresh THEN FALSE ELSE @,
                  !.alone = IF q = p THEN @ ELSE FALSE,
                  !.second = IF q = p THEN @ ELSE FALSE]]

\* history bookkeeping: the environment changed
NoteChange(l, isUpstream) ==
  [q \in Procs |->
     [l[q] EXCEPT !.sameUp = IF isUpstream THEN FALSE ELSE @,
                  !.alone = FALSE, !.second = FALSE]]

Init ==
  /\ today = Day0
  /\ now = 0
  /\ settings \in SettingsChoices
  /\ upstream = EventUniverse
  /\ outage = "none"
  /\ calendars_cache = [time |-> 0, cals |-> <<>>]
  /\ rows = {}
  /\ meta = NoMeta
  /\ loc = [p \in Procs |-> IdleLoc]
  /\ prevF = NoPrev
  /\ quiet = FALSE
  /\ changes = 0
  /\ ops = 0
  /\ SelRest
  /\ BcRest
  /\ SchedRest
  /\ AuthRest
  /\ FnRest /\ StrRest

(* ------------------------------ refresh ------------------------------- *)
\* _refresh_db_cache_sync, lines 258-262: window and upstream fetch
RefreshStart(p) ==
  /\ loc[p].pc = "idle"
  /\ ops < MaxOps
  /\ ops' = ops + 1
  /\ LET w == GetCacheRange(today)
         r == FetchEventsFromCaldav(calendars_cache, now, settings, upstream, outage,
                                    w.start, w.end)
     IN /\ calendars_cache' = r.cache
        /\ loc' = [loc EXCEPT ![p] =
             [IdleLoc EXCEPT !.pc = IF r.ok THEN "delete" ELSE "ret",
                             !.op = "refresh", !.stage = "refresh",
                             !.fs = w.start, !.fe = w.end,
                             !.events = r.val, !.raised = ~r.ok,
                             !.calls = <<<<w.start, w.end>>>>,
                             !.fresh = Offered(r.cals, upstream, outage, w.start, w.end),
                             !.clean = (outage = "none"),
                             !.allDown = (outage = "all"),
                             !.day = today,
                             !.alone = TRUE, !.second = quiet]]
  /\ UNCHANGED <<selVars, bcVars, schedVars, authVars, fnVars, strVars>>
  /\ UNCHANGED <<today, now, settings, upstream, outage, rows, meta, prevF, quiet, changes>>

\* a DELETE that is committed on its own
RowsAfterDelete_Autocommit(rs, del) == rs \ del

\* the committed rows while a transaction's DELETE is not committed
RowsAfterDelete(rs, del) == rs

\* the DELETE of a transaction (lines 268-271 and 417-420)
TxnDelete(p) ==
  /\ loc[p].pc = "delete"
  /\ LET del == RowsInRange(rows, loc[p].fs, loc[p].fe) IN
     /\ loc' = [loc EXCEPT ![p].del = del,
                           ![p].pc = IF loc[p].op = "refresh" THEN "meta" ELSE "commit"]
     /\ rows' = RowsAfterDelete(rows, del)
  /\ UNCHANGED <<selVars, bcVars, schedVars, authVars, fnVars, strVars>>
  /\ UNCHANGED <<today, now, settings, upstream, outage, calendars_cache,
                 meta, prevF, quiet, changes, ops>>

\* db.query(CalendarCacheMetadata).first() (lines 287-290)
RefreshMetaQuery(p) ==
  /\ loc[p].pc = "meta"
  /\ loc' = [loc EXCEPT ![p].metaSeen = meta.present, ![p].pc = "commit"]
  /\ UNCHANGED <<selVars, bcVars, schedVars, authVars, fnVars, strVars>>
  /\ UNCHANGED <<today, now, settings, upstream, outage, calendars_cache,
                 rows, meta, prevF, quiet, changes, ops>>

\* what follows the transaction of a fetch-and-cache or refresh: the return
\* of _fetch_and_cache_events_sync (line 445) and the caller's next lines
AfterTxn(l) ==
  CASE l.stage = "refresh" -> [l EXCEPT !.pc = "ret"]
    [] l.stage = "miss"    -> [l EXCEPT !.pc = "ret", !.acc = MapEvents(l.events)]
    [] l.stage = "pre"     -> [l EXCEPT !.pc = "overlap", !.acc = l.acc \o MapEvents(l.events)]
    [] l.stage = "post"    -> [l EXCEPT !.pc = "ret",
                                        !.acc = SortByStart(l.acc \o MapEvents(l.events))]

\* the metadata row a refresh writes (lines 292-294)
NewMeta(l, t) ==
  [present |-> TRUE, last_refresh |-> t, cache_start |-> l.fs, cache_end |-> l.fe]

\* a fetch-and-cache that also writes the metadata row
CommittedMeta_Always(m, l, t) == NewMeta(l, t)

\* the metadata row after the commit of a refresh (lines 286-296) or of a
\* fetch-and-cache (lines 422-435, which do not touch it)
CommittedMeta(m, l, t) == IF l.op = "refresh" THEN NewMeta(l, t) ELSE m

\* INSERT of a metadata row with id=1 when one was committed meanwhile
MetaConflict(l, m) == l.op = "refresh" /\ ~l.metaSeen /\ m.present

\* the rows after the transaction's commit
CommittedRows(rs, l, ver) == (rs \ l.del) \cup NewRows(l.events, ver)

\* a rollback that leaves the DELETE applied
RolledBackRows_DeleteKept(rs, l) == rs \ l.del

\* the rows after db.rollback()
RolledBackRows(rs, l) == rs

\* db.commit() succeeds (lines 296 and 435)
TxnCommit(p) ==
  /\ loc[p].pc = "commit"
  /\ ~MetaConflict(loc[p], meta)
  /\ LET ver == FreshVer(rows, loc) IN
     /\ loc[p].events # <<>> => ver <= MaxVer
     /\ rows' = CommittedRows(rows, loc[p], ver)
  /\ meta' = CommittedMeta(meta, loc[p], now)
  /\ loc' = [NoteCommit(loc, p, loc[p].op = "refresh") EXCEPT
               ![p] = AfterTxn([@ EXCEPT !.wrote = TRUE])]
  /\ prevF' = Forget([prevF EXCEPT !.noCommit = FALSE,
                                    !.noRefresh = IF loc[p].op = "refresh" THEN FALSE ELSE @])
  /\ quiet' = (loc[p].op = "refresh" /\ loc[p].alone)
  /\ UNCHANGED <<selVars, bcVars, schedVars, authVars, fnVars, strVars>>
  /\ UNCHANGED <<today, now, settings, upstream, outage, calendars_cache, changes, ops>>

\* db.commit() raises: db.rollback() (lines 299-301 and 438-440)
TxnRollback(p) ==
  /\ loc[p].pc = "commit"
  /\ rows' = RolledBackRows(rows, loc[p])
  /\ loc' = [loc EXCEPT ![p] = AfterTxn([loc[p] EXCEPT !.clean = FALSE])]
  /\ UNCHANGED <<selVars, bcVars, schedVars, authVars, fnVars, strVars>>
  /\ UNCHANGED <<today, now, settings, upstream, outage, calendars_cache,
                 meta, prevF, quiet, changes, ops>>

(* ------------------------------- fetch -------------------------------- *)
\* the range test without its upper bound
IsFullHit_NoEnd(m, a, b) == m.has /\ a >= m.cs

\* line 458: the requested range is fully within the cache
IsFullHit(m, a, b) == m.has /\ a >= m.cs /\ b <= m.ce

\* the part before the cache ending on cache_start itself
PreRange_Inclusive(a, b, cs) == <<a, Min(b, cs)>>

\* lines 469-470: the part before the cache
PreRange(a, b, cs) == <<a, Min(b, cs - 1)>>

\* lines 479-480: the part within the cache
OverlapRange(a, b, cs, ce) == <<Max(a, cs), Min(b, ce)>>

\* the part after the cache beginning on cache_end itself
PostRange_Inclusive(a, b, ce) == <<Max(a, ce), b>>

\* lines 488-489: the part after the cache
PostRange(a, b, ce) == <<Max(a, ce + 1), b>>

\* fetch_ical_events, lines 455-506: which ranges the call fetches from
\* upstream before and after the cache and which it reads from storage; each
\* is a list of no or one range
SubRanges(m, a, b) ==
  IF IsFullHit(m, a, b)
  THEN [kind |-> "hit", pre |-> <<>>, overlap |-> << <<a, b>> >>, post |-> <<>>]
  ELSE IF m.has
  THEN [kind |-> "partial",
        pre |-> IF a < m.cs THEN << PreRange(a, b, m.cs) >> ELSE <<>>,
        overlap |-> IF OverlapRange(a, b, m.cs, m.ce)[1] <= OverlapRange(a, b, m.cs, m.ce)[2]
                    THEN << OverlapRange(a, b, m.cs, m.ce) >> ELSE <<>>,
        post |-> IF b > m.ce THEN << PostRange(a, b, m.ce) >> ELSE <<>>]
  ELSE [kind |-> "miss", pre |-> << <<a, b>> >>, overlap |-> <<>>, post |-> <<>>]

\* fetch_ical_events, lines 455-506 up to the first await / storage read
FetchBegin(p, a, b) ==
  /\ loc[p].pc = "idle"
  /\ ops < MaxOps
  /\ ops' = ops + 1
  /\ LET m == GetCacheMetadata(meta)
         l0 == [IdleLoc EXCEPT !.op = "fetch", !.s = a, !.e = b, !.day = today,
                               !.has = m.has, !.cs = m.cs, !.ce = m.ce]
     IN loc' = [loc EXCEPT ![p] =
          IF IsFullHit(m, a, b)
          THEN [l0 EXCEPT !.pc = "hit"]
          ELSE IF m.has
          THEN IF a < m.cs
               THEN [l0 EXCEPT !.pc = "call", !.stage = "pre",
                               !.fs = PreRange(a, b, m.cs)[1],
                               !.fe = PreRange(a, b, m.cs)[2]]
               ELSE [l0 EXCEPT !.pc = "overlap"]
          ELSE [l0 EXCEPT !.pc = "call", !.stage = "miss", !.fs = a, !.fe = b]]
  /\ UNCHANGED <<selVars, bcVars, schedVars, authVars, fnVars, strVars>>
  /\ UNCHANGED <<today, now, settings, upstream, outage, calendars_cache,
                 rows, meta, prevF, quiet, changes>>

\* history: another worker has run its DELETE on committed rows of [s, e] and
\* not yet committed
OpenTxnOn(l, p, s, e) ==
  \E q \in Procs \ {p} :
    /\ l[q].pc \in {"meta", "commit"}
    /\ RowsInRange(l[q].del \cap rows, s, e) # {}

\* full hit: return _get_events_from_db(start_date, end_date) (line 460)
FetchHit(p) ==
  /\ loc[p].pc = "hit"
  /\ loc' = [loc EXCEPT ![p].acc = GetEventsFromDb(rows, loc[p].s, loc[p].e),
                        ![p].reads = <<<<loc[p].s, loc[p].e>>>>,
                        ![p].stored = {r \in rows : loc[p].s <= r.date /\ r.date <= loc[p].e},
                        ![p].sawOpenTxn = OpenTxnOn(loc, p, loc[p].s, loc[p].e),
                        ![p].pc = "ret"]
  /\ UNCHANGED <<selVars, bcVars, schedVars, authVars, fnVars, strVars>>
  /\ UNCHANGED <<today, now, settings, upstream, outage, calendars_cache,
                 rows, meta, prevF, quiet, changes, ops>>

\* _fetch_and_cache_events_sync, line 411: the upstream fetch of a sub-range
FetchCall(p) ==
  /\ loc[p].pc = "call"
  /\ LET r == FetchEventsFromCaldav(calendars_cache, now, settings, upstream, outage,
                                    loc[p].fs, loc[p].fe)
     IN /\ calendars_cache' = r.cache
        /\ loc' = [loc EXCEPT
             ![p].pc = IF r.ok THEN "delete" ELSE "ret",
             ![p].events = r.val,
             ![p].del = {},
             ![p].raised = ~r.ok,
             ![p].clean = loc[p].clean /\ outage = "none",
             ![p].allDown = loc[p].allDown /\ outage = "all",
             ![p].calls = Append(loc[p].calls, <<loc[p].fs, loc[p].fe>>),
             ![p].fresh = loc[p].fresh \cup
                            Offered(r.cals, upstream, outage, loc[p].fs, loc[p].fe)]
  /\ UNCHANGED <<selVars, bcVars, schedVars, authVars, fnVars, strVars>>
  /\ UNCHANGED <<today, now, settings, upstream, outage, rows, meta, prevF, quiet,
                 changes, ops>>

\* lines 478-499: the overlap read, then the post-range or the final sort
FetchOverlap(p) ==
  /\ loc[p].pc = "overlap"
  /\ LET l == loc[p]
         ov == OverlapRange(l.s, l.e, l.cs, l.ce)
         overlap_start == ov[1]
         overlap_end == ov[2]
         l1 == IF overlap_start <= overlap_end
               THEN [l EXCEPT !.acc = l.acc \o GetEventsFromDb(rows, overlap_start, overlap_end),
                              !.reads = Append(l.reads, <<overlap_start, overlap_end>>),
                              !.stored = {r \in rows : overlap_start <= r.date
                                                       /\ r.date <= overlap_end},
                              !.sawOpenTxn = OpenTxnOn(loc, p, overlap_start, overlap_end)]
               ELSE l
     IN loc' = [loc EXCEPT ![p] =
          IF l.e > l.ce
          THEN [l1 EXCEPT !.pc = "call", !.stage = "post",
                          !.fs = PostRange(l.s, l.e, l.ce)[1],
                          !.fe = PostRange(l.s, l.e, l.ce)[2]]
          ELSE [l1 EXCEPT !.pc = "ret", !.acc = SortByStart(l1.acc)]]
  /\ UNCHANGED <<selVars, bcVars, schedVars, authVars, fnVars, strVars>>
  /\ UNCHANGED <<today, now, settings, upstream, outage, calendars_cache,
                 rows, meta, prevF, quiet, changes, ops>>

\* the call returns to its caller
Return(p) ==
  /\ loc[p].pc = "ret"
  /\ prevF' =
       IF loc[p].op = "fetch"
       THEN Forget([valid |-> TRUE,
                    good |-> loc[p].clean /\ ~loc[p].raised,
                    s |-> loc[p].s, e |-> loc[p].e, res |-> Range(loc[p].acc),
                    inWindow |-> loc[p].has /\ loc[p].s >= loc[p].cs /\ loc[p].e <= loc[p].ce,
                    sameUp |-> loc[p].sameUp, noRefresh |-> loc[p].noRefresh,
                    noCommit |-> loc[p].noCommit])
       ELSE prevF
  /\ loc' = [loc EXCEPT ![p] = IdleLoc]
  /\ UNCHANGED <<selVars, bcVars, schedVars, authVars, fnVars, strVars>>
  /\ UNCHANGED <<today, now, settings, upstream, outage, calendars_cache,
                 rows, meta, quiet, changes, ops>>

(* ---------------------------- environment ----------------------------- *)
\* an occurrence appears upstream or disappears
UpstreamChange(ev) ==
  /\ changes < MaxChanges
  /\ changes' = changes + 1
  /\ upstream' = IF ev \in upstream THEN upstream \ {ev} ELSE upstream \cup {ev}
  /\ prevF' = [prevF EXCEPT !.sameUp = FALSE]
  /\ loc' = NoteChange(loc, TRUE)
  /\ quiet' = FALSE
  /\ UNCHANGED <<selVars, bcVars, schedVars, authVars, fnVars, strVars>>
  /\ UNCHANGED <<today, now, settings, outage, calendars_cache, rows, meta, ops>>

\* upstream (or one of its calendars) becomes unreachable or reachable again
OutageChange(o) ==
  /\ o # outage
  /\ changes < MaxChanges
  /\ changes' = changes + 1
  /\ outage' = o
  /\ prevF' = [prevF EXCEPT !.sameUp = FALSE]
  /\ loc' = NoteChange(loc, TRUE)
  /\ quiet' = FALSE
  /\ UNCHANGED <<selVars, bcVars, schedVars, authVars, fnVars, strVars>>
  /\ UNCHANGED <<today, now, settings, upstream, calendars_cache, rows, meta, ops>>

\* date.today() moves on
Midnight ==
  /\ today < Day0 + MaxDays
  /\ changes < MaxChanges
  /\ changes' = changes + 1
  /\ today' = today + 1
  /\ loc' = NoteChange(loc, FALSE)
  /\ quiet' = FALSE
  /\ UNCHANGED <<selVars, bcVars, schedVars, authVars, fnVars, strVars>>
  /\ UNCHANGED <<now, settings, upstream, outage, calendars_cache, rows, meta,
                 prevF, ops>>

\* time.time() moves on by the lifetime of _calendars_cache
Tick ==
  /\ now < MaxTicks * CALENDAR_CACHE_TTL
  /\ changes < MaxChanges
  /\ changes' = changes + 1
  /\ now' = now + CALENDAR_CACHE_TTL
  /\ UNCHANGED <<selVars, bcVars, schedVars, authVars, fnVars, strVars>>
  /\ UNCHANGED <<today, settings, upstream, outage, calendars_cache, rows, meta,
                 loc, prevF, quiet, ops>>

Next ==
  \/ \E p \in Procs : RefreshStart(p)
  \/ \E p \in Procs : TxnDelete(p)
  \/ \E p \in Procs : RefreshMetaQuery(p)
  \/ \E p \in Procs : TxnCommit(p)
  \/ \E p \in Procs : TxnRollback(p)
  \/ \E p \in Requesters, r \in ReqRanges : FetchBegin(p, r[1], r[2])
  \/ \E p \in Procs : FetchHit(p)
  \/ \E p \in Procs : FetchCall(p)
  \/ \E p \in Procs : FetchOverlap(p)
  \/ \E p \in Procs : Return(p)
  \/ \E ev \in EventUniverse : UpstreamChange(ev)
  \/ \E o \in Outages : OutageChange(o)
  \/ Midnight
  \/ Tick

Spec == Init /\ [][Next]_vars


(* ===================== properties of the calendar cache =============== *)
IsSortedByStart(seq) ==
  \A i, j \in DOMAIN seq : i < j => seq[i].start <= seq[j].start

Count(seq, x) == Cardinality({i \in DOMAIN seq : seq[i] = x})

\* seq holds exactly the events of A (upstream occurrences) and of B (rows),
\* each as often as it occurs there
HoldsExactly(seq, A, B) ==
  \A c \in Range(seq) \cup {ToCalendarEvent(x) : x \in A \cup B} :
    Count(seq, c) = Cardinality({x \in A : ToCalendarEvent(x) = c})
                    + Cardinality({r \in B : ToCalendarEvent(r) = c})

\* a row without its identity
Occurrence(r) == [date |-> r.date, cal |-> r.cal, title |-> r.title,
                  start |-> r.start, end |-> r.end]

\* the same occurrences, each as often
SameOccurrences(R1, R2) ==
  \A o \in {Occurrence(r) : r \in R1 \cup R2} :
    Cardinality({r \in R1 : Occurrence(r) = o}) = Cardinality({r \in R2 : Occurrence(r) = o})

AtReturn(p, op) == loc[p].pc = "ret" /\ loc[p].op = op /\ ~loc[p].raised

\* worker p takes its commit step and the commit succeeds
CommitsNow(p) == loc[p].pc = "commit" /\ loc'[p].wrote

Repeats(p) ==
  AtReturn(p, "fetch") /\ prevF.valid /\ prevF.s = loc[p].s /\ prevF.e = loc[p].e

\* C1 (as stated): after a successful fetch(a,b), a following fetch(a,b) with
\* no refresh and no upstream change in between makes no upstream call and
\* returns the same set of events.
C1_CoverageAsStated ==
  \A p \in Requesters :
    (Repeats(p) /\ prevF.good /\ prevF.sameUp /\ prevF.noRefresh)
      => (loc[p].calls = <<>> /\ Range(loc[p].acc) = prevF.res)

\* C1 (amended): when [a,b] lay inside the CacheMetadata window and no
\* transaction committed since the first fetch began, the following fetch(a,b)
\* makes no upstream call and returns the same set of events; when [a,b] did
\* not lie inside the window and no refresh committed since, the following
\* fetch(a,b) calls upstream again.
C1_CoverageInsideWindow ==
  \A p \in Requesters :
    Repeats(p) =>
      /\ (prevF.inWindow /\ prevF.noCommit)
           => (loc[p].calls = <<>> /\ Range(loc[p].acc) = prevF.res)
      /\ (~prevF.inWindow /\ prevF.noRefresh) => loc[p].calls # <<>>

C1_Witness ==
  \E p \in Requesters :
    Repeats(p) /\ prevF.inWindow /\ prevF.noCommit /\ loc[p].acc # <<>>

\* C2: with a metadata window [W1,W2] and a request [a,b], a < W1 < b <= W2,
\* fetch asks upstream for exactly [a, W1-1], reads exactly [W1, b] from
\* storage and returns what upstream offered there together with the rows
\* stored there, sorted by start, nothing twice and nothing missing.
C2_GapFilling ==
  \A p \in Requesters :
    (AtReturn(p, "fetch") /\ loc[p].has
       /\ loc[p].s < loc[p].cs /\ loc[p].cs < loc[p].e /\ loc[p].e <= loc[p].ce)
      => /\ loc[p].calls = << <<loc[p].s, loc[p].cs - 1>> >>
         /\ loc[p].reads = << <<loc[p].cs, loc[p].e>> >>
         /\ IsSortedByStart(loc[p].acc)
         /\ HoldsExactly(loc[p].acc, loc[p].fresh, loc[p].stored)

C2_Witness ==
  \E p \in Requesters :
    /\ AtReturn(p, "fetch") /\ loc[p].has
    /\ loc[p].s < loc[p].cs /\ loc[p].cs < loc[p].e /\ loc[p].e <= loc[p].ce
    /\ Cardinality(loc[p].fresh) >= 2 /\ loc[p].stored # {}

\* C3: a refresh that begins right after a refresh that ran alone and
\* committed, on the same day and with upstream unchanged, leaves the same
\* stored occurrences and the same metadata window; only last_refresh may differ.
C3_RefreshIdempotent ==
  [][\A p \in Procs :
       (CommitsNow(p) /\ loc[p].op = "refresh" /\ loc[p].second)
         => /\ SameOccurrences(rows', rows)
            /\ meta'.present = meta.present
            /\ meta'.cache_start = meta.cache_start
            /\ meta'.cache_end = meta.cache_end]_vars

C3_Witness ==
  \E p \in Procs :
    /\ AtReturn(p, "refresh") /\ loc[p].second /\ loc[p].wrote
    /\ loc[p].del # {} /\ rows # {}

\* C4 (as stated): after a refresh whose transaction commits, the rows dated
\* in the window are exactly the events fetched during that call, the rows
\* dated outside the window are unchanged, and the metadata holds that window.
C4_RefreshPostcondition ==
  [][\A p \in Procs :
       (CommitsNow(p) /\ loc[p].op = "refresh")
         => LET w1 == loc[p].day - 7 * CACHE_WEEKS_BEFORE
                w2 == loc[p].day + 7 * CACHE_WEEKS_AFTER
                inside(rs) == {r \in rs : w1 <= r.date /\ r.date <= w2}
            IN /\ HoldsExactly(MapEvents(loc[p].events), {}, inside(rows'))
               /\ inside(rows') \subseteq {MakeRow(ev, r.ver) : ev \in loc[p].fresh, r \in rows'}
               /\ rows' \ inside(rows') = rows \ inside(rows)
               /\ meta'.present
               /\ meta'.cache_start = w1
               /\ meta'.cache_end = w2]_vars


\* worker p takes a step of its own
Steps(p) == loc'[p].pc # loc[p].pc

\* C5: a refresh whose commit fails is rolled back and leaves stored events
\* and metadata as they were (no step of a refresh other than its successful
\* commit changes storage), and the metadata row only ever changes in the
\* commit that also persists the events fetched for the window it names.
C5_RefreshAtomicOnFailure ==
  [][/\ \A p \in Procs :
          (loc[p].op = "refresh" /\ Steps(p) /\ ~CommitsNow(p))
            => (rows' = rows /\ meta' = meta)
     /\ meta' # meta =>
          \E p \in Procs :
            /\ CommitsNow(p) /\ loc[p].op = "refresh"
            /\ meta'.cache_start = loc[p].fs /\ meta'.cache_end = loc[p].fe
            /\ \A i \in DOMAIN loc[p].events :
                 \E r \in rows' \ rows : Occurrence(r) = Occurrence(MakeRow(loc[p].events[i], 0))
     ]_vars

C5_Witness ==
  \E p \in Procs :
    /\ AtReturn(p, "refresh") /\ ~loc[p].wrote
    /\ loc[p].del # {} /\ loc[p].events # <<>>
    /\ loc[p].del \subseteq rows /\ meta.present

\* C6: readers never see a half-applied transaction: the committed rows and
\* metadata change only in a commit step, which removes the rows of the
\* DELETE and adds the inserted rows at once, and a read taken while another
\* transaction is between its DELETE and its commit still sees the rows that
\* transaction has deleted and not committed.
C6_ReaderAtomicity ==
  [][/\ (rows' # rows \/ meta' # meta) =>
          \E p \in Procs :
            /\ CommitsNow(p)
            /\ rows \ rows' \subseteq loc[p].del
            /\ {Occurrence(r) : r \in rows' \ rows}
                 = {Occurrence(MakeRow(loc[p].events[i], 0)) : i \in DOMAIN loc[p].events}
     /\ \A p \in Procs :
          (loc[p].pc \in {"hit", "overlap"} /\ Steps(p) /\ loc'[p].sawOpenTxn)
            => \A q \in Procs \ {p} :
                 \A r \in loc[q].del \cap rows :
                   (loc[q].pc \in {"meta", "commit"}
                      /\ r.date >= loc'[p].reads[Len(loc'[p].reads)][1]
                      /\ r.date <= loc'[p].reads[Len(loc'[p].reads)][2])
                     => (r \in loc'[p].stored
                          /\ Count(loc'[p].acc, ToCalendarEvent(r)) >= 1)
     ]_vars

C6_Witness ==
  \E p \in Requesters :
    /\ AtReturn(p, "fetch") /\ loc[p].sawOpenTxn /\ loc[p].stored # {}
    /\ \E q \in Procs \ {p} : loc[q].pc = "commit" /\ loc[q].events # <<>>
                              /\ loc[q].del \cap loc[p].stored # {}

C8_FullMiss ==
  \A p \in Requesters :
    (AtReturn(p, "fetch") /\ ~loc[p].has)
      => /\ loc[p].calls = << <<loc[p].s, loc[p].e>> >>
         /\ loc[p].reads = <<>>
         /\ loc[p].fs = loc[p].s /\ loc[p].fe = loc[p].e
         /\ loc[p].acc = MapEvents(loc[p].events)
         /\ HoldsExactly(loc[p].acc, loc[p].fresh, {})
         /\ IsSortedByStart(loc[p].acc)

C8_Witness ==
  \E p \in Requesters :
    AtReturn(p, "fetch") /\ ~loc[p].has /\ loc[p].wrote /\ Len(loc[p].acc) >= 2

\* C9: no step of a fetch changes the metadata row, also when the fetch
\* persists rows; the metadata row changes only in the commit of a refresh.
C9_FetchKeepsMetadata ==
  [][/\ \A p \in Procs : (loc[p].op = "fetch" /\ Steps(p)) => meta' = meta
     /\ meta' # meta => \E p \in Procs : loc[p].op = "refresh" /\ CommitsNow(p)
     ]_vars

C9_Witness ==
  \E p \in Requesters :
    /\ AtReturn(p, "fetch") /\ loc[p].wrote /\ loc[p].has
    /\ \E r \in rows : r.date < meta.cache_start \/ r.date > meta.cache_end

\* C10: an upstream fetch issued while upstream is unreachable yields no
\* events and no exception; a fetch whose upstream calls all met an
\* unreachable upstream returns exactly what it read from storage.
C10_UnreachableUpstream ==
  [][\A p \in Procs :
       /\ (Len(loc'[p].calls) > Len(loc[p].calls) /\ outage = "all")
            => (loc'[p].events = <<>> /\ loc'[p].pc = "delete")
       /\ ~loc'[p].raised
       /\ (loc'[p].pc = "ret" /\ loc'[p].op = "fetch" /\ loc'[p].allDown)
            => HoldsExactly(loc'[p].acc, {}, loc'[p].stored)
     ]_vars

C10_Witness ==
  \E p \in Requesters :
    /\ AtReturn(p, "fetch") /\ loc[p].calls # <<>> /\ loc[p].allDown
    /\ loc[p].stored # {} /\ Len(loc[p].acc) = Cardinality(loc[p].stored)


\* C26: storage never holds two rows for the same upstream occurrence (same
\* calendar, start and title), whatever refreshes and fetches ran and however
\* their transactions interleaved.
C26_NoDuplicateRows ==
  \A r1, r2 \in rows :
    (r1.cal = r2.cal /\ r1.start = r2.start /\ r1.title = r2.title) => r1 = r2

\* C34: every row a fetch-and-cache or a refresh for the range [s, e] persists
\* has its calendar date within [s, e], the range its transaction deleted
\* first, and that date is the date of the row's start timestamp; what
\* upstream returned with a date outside the range is not stored.
C34_RangeConfinement ==
  [][\A r \in rows' \ rows :
       /\ r.date = DateOf(r.start)
       /\ \E p \in Procs :
            /\ loc[p].pc = "commit" /\ loc'[p].wrote
            /\ loc[p].fs <= r.date /\ r.date <= loc[p].fe
            /\ RowsInRange(rows', loc[p].fs, loc[p].fe) \cap loc[p].del = {}]_vars

\* a fetch for the single day on which an upstream event of the day before
\* ends has stored that day's event and not the one that reaches into it
C34_Witness ==
  \E p \in Requesters :
    /\ AtReturn(p, "fetch") /\ loc[p].wrote /\ loc[p].sameUp
    /\ loc[p].fs = loc[p].fe /\ outage = "none"
    /\ Len(loc[p].events) = 1
    /\ \E ev \in upstream :
         /\ ev.cal \in Range(settings.names)
         /\ DateOf(ev.start) < loc[p].fs /\ DateOf(ev.end) = loc[p].fs
         /\ \A r \in rows : r.start # ev.start
    /\ \E r \in rows : r.date = loc[p].fs

(* ============ scheduler, manual refresh and lifespan ================== *)
\* A refresh is followed here from its launch to its end; what it does to
\* storage in between are the steps of Spec.

\* the calendar cache left alone
CalRest ==
  /\ today = Day0
  /\ now = 0
  /\ settings = [creds |-> TRUE, names |-> <<>>]
  /\ upstream = EventUniverse
  /\ outage = "none"
  /\ calendars_cache = [time |-> 0, cals |-> <<>>]
  /\ rows = {}
  /\ meta = NoMeta
  /\ loc = [p \in Procs |-> IdleLoc]
  /\ prevF = NoPrev
  /\ quiet = FALSE
  /\ changes = 0
  /\ ops = 0

\* how a call that may raise ends
Outcomes == {"ok", "raised"}

\* main.py line 111: the lifespan has created the initialize_cache() task;
\* one stream is open
SchedInit ==
  /\ CalRest
  /\ SelRest
  /\ AuthRest
  /\ FnRest /\ StrRest
  /\ queue = [q \in QueueIds |-> <<>>]
  /\ registered = {"q1"}
  /\ closed = FALSE
  /\ qinfo = [q \in QueueIds |->
               IF q = "q1" THEN [NoQInfo EXCEPT !.created = TRUE, !.live = TRUE] ELSE NoQInfo]
  /\ bhist = NoBHist
  /\ wpub = NoWPub
  /\ refresh_in_progress = FALSE
  /\ refresh_task = "none"
  /\ init_pc = "created"
  /\ loop_pc = "none"
  /\ loop_cancel = FALSE
  /\ shut_pc = "up"
  /\ jobs = [j \in SchedJobs |-> "idle"]
  /\ man = [m \in Manual |-> IdleMan]
  /\ sclock = 0
  /\ wake = 0
  /\ shist = NoSHist

\* the refreshes that are executing
Executing ==
  {j \in SchedJobs : jobs[j] \in {"running", "orphan"}}
    \cup {m \in Manual : man[m].pc = "refreshing"}

\* initialize_cache, lines 348-351: the startup refresh is handed to the executor
InitStart ==
  /\ init_pc = "created"
  /\ init_pc' = "refreshing"
  /\ jobs' = [jobs EXCEPT !["startup"] = "running"]
  /\ shist' = [shist EXCEPT !.startups = @ + 1]
  /\ UNCHANGED <<refresh_in_progress, refresh_task, loop_pc, loop_cancel, shut_pc,
                 man, sclock, wake>>
  /\ UNCHANGED <<selVars, calVars, bcVars, authVars, fnVars, strVars>>

\* _refresh_db_cache_sync returns or raises in its executor thread
JobEnd(j, outcome) ==
  /\ jobs[j] \in {"running", "orphan"}
  /\ jobs' = [jobs EXCEPT ![j] = IF jobs[j] = "orphan" THEN "idle" ELSE outcome]
  /\ shist' = IF j = "startup" THEN [shist EXCEPT !.startupEnd = sclock] ELSE shist
  /\ UNCHANGED <<refresh_in_progress, refresh_task, init_pc, loop_pc, loop_cancel,
                 shut_pc, man, sclock, wake>>
  /\ UNCHANGED <<selVars, calVars, bcVars, authVars, fnVars, strVars>>

\* initialize_cache, lines 351-355: the await returns and the loop task is
\* created, or the exception of the refresh ends initialize_cache
InitResume ==
  /\ init_pc = "refreshing"
  /\ jobs["startup"] \in Outcomes
  /\ jobs' = [jobs EXCEPT !["startup"] = "idle"]
  /\ IF jobs["startup"] = "ok"
     THEN /\ init_pc' = "done"
          /\ refresh_task' = "loop"
          /\ loop_pc' = "created"
     ELSE /\ init_pc' = "failed"
          /\ UNCHANGED <<refresh_task, loop_pc>>
  /\ UNCHANGED <<refresh_in_progress, loop_cancel, shut_pc, man, sclock, wake, shist>>
  /\ UNCHANGED <<selVars, calVars, bcVars, authVars, fnVars, strVars>>

\* a sleep that ends at once
SleepUntil_NoDelay(t) == t

\* line 316: when an asyncio.sleep(CACHE_REFRESH_INTERVAL) begun at t is over
SleepUntil(t) == t + CACHE_REFRESH_INTERVAL

\* _background_refresh_loop, line 316: asyncio.sleep(CACHE_REFRESH_INTERVAL) begins
LoopSleep ==
  /\ loop_pc = "created"
  /\ ~loop_cancel
  /\ loop_pc' = "sleeping"
  /\ wake' = SleepUntil(sclock)
  /\ shist' = [shist EXCEPT !.slept = TRUE]
  /\ UNCHANGED <<refresh_in_progress, refresh_task, init_pc, loop_cancel, shut_pc,
                 jobs, man, sclock>>
  /\ UNCHANGED <<selVars, calVars, bcVars, authVars, fnVars, strVars>>

\* lines 316-318: the sleep is over, the refresh is handed to the executor
LoopWake ==
  /\ loop_pc = "sleeping"
  /\ ~loop_cancel
  /\ sclock >= wake
  /\ shist.cycles < MaxCycles
  /\ loop_pc' = "refreshing"
  /\ jobs' = [jobs EXCEPT !["cycle"] = "running"]
  /\ shist' = [shist EXCEPT !.cycles = @ + 1]
  /\ UNCHANGED <<refresh_in_progress, refresh_task, init_pc, loop_cancel, shut_pc,
                 man, sclock, wake>>
  /\ UNCHANGED <<selVars, calVars, bcVars, authVars, fnVars, strVars>>

\* a loop that an exception of the refresh ends
AfterCycle_Dies(outcome) == IF outcome = "raised" THEN "finished" ELSE "sleeping"

\* what the loop does with the outcome of its cycle (lines 318-323)
AfterCycle(outcome) == "sleeping"

\* lines 318-323 and 314-316: the await returns or raises Exception; either
\* way the loop goes round and sleeps again
LoopResume ==
  /\ loop_pc = "refreshing"
  /\ ~loop_cancel
  /\ jobs["cycle"] \in Outcomes
  /\ jobs' = [jobs EXCEPT !["cycle"] = "idle"]
  /\ loop_pc' = AfterCycle(jobs["cycle"])
  /\ wake' = SleepUntil(sclock)
  /\ shist' = [shist EXCEPT !.failed = (jobs["cycle"] = "raised")]
  /\ UNCHANGED <<refresh_in_progress, refresh_task, init_pc, loop_cancel, shut_pc,
                 man, sclock>>
  /\ UNCHANGED <<selVars, calVars, bcVars, authVars, fnVars, strVars>>

\* a loop that swallows the cancellation while it sleeps and goes on
LoopAfterCancel_Ignores(pc) == IF pc = "sleeping" THEN "sleeping" ELSE "finished"

\* lines 319-321: except asyncio.CancelledError: break
LoopAfterCancel(pc) == "finished"

\* lines 319-321: CancelledError reaches the loop at its await and it breaks;
\* a refresh in its thread runs on
LoopCancelled ==
  /\ loop_cancel
  /\ loop_pc \in {"created", "sleeping", "refreshing"}
  /\ loop_pc' = LoopAfterCancel(loop_pc)
  /\ loop_cancel' = FALSE
  /\ jobs' = [jobs EXCEPT !["cycle"] = IF @ = "running" THEN "orphan"
                                        ELSE IF @ \in Outcomes THEN "idle" ELSE @]
  /\ UNCHANGED <<refresh_in_progress, refresh_task, init_pc, shut_pc, man, sclock,
                 wake, shist>>
  /\ UNCHANGED <<selVars, calVars, bcVars, authVars, fnVars, strVars>>

\* whether shutdown_cache finds a task to cancel (line 362)
HasTask(task) == task # "none"

\* main.py lines 116-117 and shutdown_cache, lines 362-365:
\* broadcaster.close(), then cancel the loop task and await it
Shutdown ==
  /\ shut_pc = "up"
  /\ init_pc # "created"
  /\ LET c == CloseAll(queue, registered, closed) IN
     /\ queue' = c.queue
     /\ closed' = c.closed
     /\ qinfo' = [q \in QueueIds |->
                   [qinfo[q] EXCEPT !.atClose = q \in registered,
                                    !.fullAtClose = q \in registered
                                                      /\ Len(queue[q]) = QueueCap]]
     /\ bhist' = [bhist EXCEPT !.nclose = @ + 1]
  /\ IF HasTask(refresh_task)
     THEN /\ loop_cancel' = (loop_pc # "finished")
          /\ shut_pc' = "awaiting"
          /\ shist' = [shist EXCEPT !.cancelAt = sclock]
     ELSE /\ shut_pc' = "returned"
          /\ UNCHANGED <<loop_cancel, shist>>
  /\ UNCHANGED <<registered, wpub, refresh_in_progress, refresh_task, init_pc, loop_pc,
                 jobs, man, sclock, wake>>
  /\ UNCHANGED <<selVars, calVars, authVars, fnVars, strVars>>

\* shutdown_cache, lines 365-369: the awaited task is done
ShutdownResume ==
  /\ shut_pc = "awaiting"
  /\ loop_pc = "finished"
  /\ refresh_task' = "none"
  /\ shut_pc' = "returned"
  /\ UNCHANGED <<refresh_in_progress, init_pc, loop_pc, loop_cancel, jobs, man,
                 sclock, wake, shist>>
  /\ UNCHANGED <<selVars, calVars, bcVars, authVars, fnVars, strVars>>

\* a handler that schedules the task whatever the flag says
ManualDecision_Always(flag) == [pc |-> "queued", resp |-> "started"]

\* refresh_calendar, lines 127-133: the answer and whether a task is scheduled
ManualDecision(flag) ==
  IF flag THEN [pc |-> "idle", resp |-> "already"]
  ELSE [pc |-> "queued", resp |-> "started"]

\* POST /api/calendar/refresh
ManualPost(m) ==
  /\ shut_pc = "up"
  /\ man[m].pc = "idle"
  /\ shist.posts < MaxPosts
  /\ man' = [man EXCEPT ![m] = ManualDecision(refresh_in_progress)]
  /\ shist' = [shist EXCEPT !.posts = @ + 1]
  /\ UNCHANGED <<refresh_in_progress, refresh_task, init_pc, loop_pc, loop_cancel,
                 shut_pc, jobs, sclock, wake>>
  /\ UNCHANGED <<selVars, calVars, bcVars, authVars, fnVars, strVars>>

\* _do_refresh_and_broadcast, lines 43-48: the background task starts, sets
\* the flag and calls _refresh_db_cache_sync
ManualRun(m) ==
  /\ man[m].pc = "queued"
  /\ man' = [man EXCEPT ![m].pc = "refreshing"]
  /\ refresh_in_progress' = TRUE
  /\ UNCHANGED <<refresh_task, init_pc, loop_pc, loop_cancel, shut_pc, jobs,
                 sclock, wake, shist>>
  /\ UNCHANGED <<selVars, calVars, bcVars, authVars, fnVars, strVars>>

\* a task without the finally block: the flag stays as the task set it
FlagAfterTask_Kept(flag) == flag

\* the flag after _do_refresh_and_broadcast has left its try block (lines 88-89)
FlagAfterTask(flag) == FALSE

\* line 48 returns, or raises and the finally block runs
ManualRefreshEnd(m, outcome) ==
  /\ man[m].pc = "refreshing"
  /\ IF outcome = "ok"
     THEN /\ man' = [man EXCEPT ![m].pc = "readback"]
          /\ UNCHANGED refresh_in_progress
     ELSE /\ man' = [man EXCEPT ![m].pc = "idle"]
          /\ refresh_in_progress' = FlagAfterTask(refresh_in_progress)
  /\ UNCHANGED <<refresh_task, init_pc, loop_pc, loop_cancel, shut_pc, jobs,
                 sclock, wake, shist>>
  /\ UNCHANGED <<selVars, calVars, bcVars, authVars, fnVars, strVars>>

\* lines 51-73: the refreshed events and the metadata are read back
ManualReadBack(m, outcome) ==
  /\ man[m].pc = "readback"
  /\ IF outcome = "ok"
     THEN /\ man' = [man EXCEPT ![m].pc = "broadcast"]
          /\ UNCHANGED refresh_in_progress
     ELSE /\ man' = [man EXCEPT ![m].pc = "idle"]
          /\ refresh_in_progress' = FlagAfterTask(refresh_in_progress)
  /\ UNCHANGED <<refresh_task, init_pc, loop_pc, loop_cancel, shut_pc, jobs,
                 sclock, wake, shist>>
  /\ UNCHANGED <<selVars, calVars, bcVars, authVars, fnVars, strVars>>

\* lines 76-89: calendar.refreshed is published (or the call raises), then
\* the finally block clears the flag
ManualBroadcast(m, outcome) ==
  /\ man[m].pc = "broadcast"
  /\ bhist.npub < MaxPublish
  /\ IF outcome = "ok"
     THEN LET r == PublishAll(queue, registered, closed, bhist.npub + 1) IN
          /\ queue' = r.queue
          /\ registered' = r.registered
          /\ bhist' = [bhist EXCEPT !.npub = @ + 1,
                         !.published = IF closed THEN @ ELSE Append(@, bhist.npub + 1)]
     ELSE UNCHANGED <<queue, registered, bhist>>
  /\ man' = [man EXCEPT ![m].pc = "idle"]
  /\ refresh_in_progress' = FlagAfterTask(refresh_in_progress)
  /\ UNCHANGED <<closed, qinfo, wpub, refresh_task, init_pc, loop_pc, loop_cancel,
                 shut_pc, jobs, sclock, wake, shist>>
  /\ UNCHANGED <<selVars, calVars, authVars, fnVars, strVars>>

\* half a refresh interval passes
SchedTick ==
  /\ shist.ticks < MaxSchedTicks
  /\ sclock' = sclock + CACHE_REFRESH_INTERVAL \div 2
  /\ shist' = [shist EXCEPT !.ticks = @ + 1]
  /\ UNCHANGED <<refresh_in_progress, refresh_task, init_pc, loop_pc, loop_cancel,
                 shut_pc, jobs, man, wake>>
  /\ UNCHANGED <<selVars, calVars, bcVars, authVars, fnVars, strVars>>

SchedNext ==
  \/ InitStart
  \/ \E j \in SchedJobs, o \in Outcomes : JobEnd(j, o)
  \/ InitResume
  \/ LoopSleep
  \/ LoopWake
  \/ LoopResume
  \/ LoopCancelled
  \/ Shutdown
  \/ ShutdownResume
  \/ \E m \in Manual : ManualPost(m)
  \/ \E m \in Manual : ManualRun(m)
  \/ \E m \in Manual, o \in Outcomes : ManualRefreshEnd(m, o)
  \/ \E m \in Manual, o \in Outcomes : ManualReadBack(m, o)
  \/ \E m \in Manual, o \in Outcomes : ManualBroadcast(m, o)
  \/ SchedTick

SpecSched == SchedInit /\ [][SchedNext]_vars


\* the fairness of the event loop and the executor: an awaited result is
\* delivered, a thread ends, time passes
FairSpecSched ==
  /\ SpecSched
  /\ WF_vars(LoopWake)
  /\ WF_vars(LoopResume)
  /\ WF_vars(SchedTick)
  /\ WF_vars(\E o \in Outcomes : JobEnd("cycle", o))

\* the event loop alone: a cancellation is delivered and an awaited task that
\* is done resumes its awaiter, whether or not time passes
PromptSpecSched ==
  /\ SpecSched
  /\ WF_vars(LoopCancelled)
  /\ WF_vars(ShutdownResume)

\* the worker thread of a manual refresh runs on: each of its calls returns
\* or raises
FairSpecManual ==
  /\ SpecSched
  /\ \A m \in Manual :
       /\ WF_vars(\E o \in Outcomes : ManualRefreshEnd(m, o))
       /\ WF_vars(\E o \in Outcomes : ManualReadBack(m, o))
       /\ WF_vars(\E o \in Outcomes : ManualBroadcast(m, o))

\* the manual refresh tasks between their first and their last line
InTask == {m \in Manual : man[m].pc \in {"refreshing", "readback", "broadcast"}}

\* C40: the 'refresh in progress' flag is true only while a manual refresh
\* task is executing; the step that ends a task, normally or by an exception
\* in the refresh, the read-back or the broadcast, leaves the flag false; a
\* trigger that finds the flag false is accepted; and the flag never stays
\* true forever.
C40_FlagReleased ==
  /\ [](refresh_in_progress => InTask # {})
  /\ [][/\ \A m \in Manual :
            (m \in InTask /\ man'[m].pc = "idle") => ~refresh_in_progress'
        /\ (shist'.posts > shist.posts /\ ~refresh_in_progress)
            => \E m \in Manual : man[m].pc = "idle" /\ man'[m].pc = "queued"
       ]_vars
  /\ refresh_in_progress ~> ~refresh_in_progress

\* one client has triggered twice and nobody else has: its first task has
\* ended, the flag is clear and its second trigger was accepted
C40_Witness ==
  /\ shist.posts = 2 /\ ~refresh_in_progress
  /\ man["m1"] = [pc |-> "queued", resp |-> "started"]
  /\ man["m2"] = IdleMan

\* C11 (as stated): a manual trigger launches a refresh, and the launched
\* task starts refreshing, only while no other refresh is executing.
C11_RefreshExclusion ==
  [][\A m \in Manual :
       /\ (man[m].pc = "idle" /\ man'[m].pc = "queued") => Executing = {}
       /\ (man[m].pc = "queued" /\ man'[m].pc = "refreshing") => Executing = {}
     ]_vars

\* the model has no more cycles or no more time to give
SchedBudgetSpent ==
  \/ shist.cycles >= MaxCycles
  \/ (sclock < wake /\ shist.ticks >= MaxSchedTicks)

\* C12: when the refresh of a cycle raises, the loop's next step is a new
\* sleep of one interval; the loop calls refresh only once its sleep is over;
\* and unless cancellation is requested, after a failed cycle the loop
\* calls refresh again.
C12_SchedulerResilience ==
  /\ [][/\ (loop_pc = "refreshing" /\ jobs["cycle"] = "raised" /\ loop_pc' # loop_pc
              /\ ~loop_cancel)
             => (loop_pc' = "sleeping" /\ wake' = sclock + CACHE_REFRESH_INTERVAL)
        /\ (loop_pc = "sleeping" /\ loop_pc' = "refreshing") => sclock >= wake
       ]_vars
  /\ ((shist.failed /\ loop_pc = "sleeping")
        ~> (loop_pc = "refreshing" \/ loop_cancel \/ loop_pc = "finished"
              \/ SchedBudgetSpent))

C12_Witness ==
  shist.failed /\ loop_pc = "refreshing" /\ jobs["cycle"] = "running" /\ shut_pc = "up"

\* C13 (as stated): once shutdown_cache has returned, the scheduler starts no
\* sleep and no refresh.
C13_NoRearmAfterShutdown ==
  [][shut_pc = "returned" =>
       /\ ~(loop_pc' # loop_pc /\ loop_pc' \in {"sleeping", "refreshing"})
       /\ \A j \in SchedJobs : ~(jobs[j] = "idle" /\ jobs'[j] = "running")
     ]_vars

\* C29: initialize_cache starts one refresh and no more; the loop task is
\* created only when that refresh has completed; and a refresh of the loop
\* starts only when the loop has slept and a full interval has passed since
\* the startup refresh ended.
C29_StartupOrdering ==
  /\ [](shist.startups <= 1)
  /\ [](loop_pc # "none" => (shist.startups = 1 /\ shist.startupEnd >= 0
                               /\ jobs["startup"] = "idle"))
  /\ [][(jobs["cycle"] # "running" /\ jobs'["cycle"] = "running")
          => /\ shist.slept /\ shist.startupEnd >= 0
             /\ jobs["startup"] = "idle"
             /\ sclock >= shist.startupEnd + CACHE_REFRESH_INTERVAL]_vars

C29_Witness ==
  /\ jobs["cycle"] = "running" /\ shist.cycles = 1 /\ shist.startups = 1
  /\ shist.startupEnd > 0
  /\ sclock = shist.startupEnd + CACHE_REFRESH_INTERVAL

\* C30: once cancellation is requested the loop starts no refresh and its
\* next step is its exit, whether or not its sleep is over; a shutdown_cache
\* that found the task returns, even if no time passes, with the loop
\* finished and the handle cleared; a shutdown_cache that finds no task
\* changes nothing.
C30_PromptCancellation ==
  /\ [][loop_cancel =>
          /\ ~(jobs["cycle"] # "running" /\ jobs'["cycle"] = "running")
          /\ loop_pc' # loop_pc => loop_pc' = "finished"]_vars
  /\ (shut_pc = "awaiting"
        ~> (shut_pc = "returned" /\ loop_pc = "finished" /\ refresh_task = "none"))
  /\ [](shut_pc = "returned" /\ shist.cancelAt >= 0
          => (loop_pc = "finished" /\ refresh_task = "none"))
  /\ [][(shut_pc = "up" /\ shut_pc' # "up" /\ ~HasTask(refresh_task))
          => /\ shut_pc' = "returned"
             /\ <<refresh_in_progress, refresh_task, init_pc, loop_pc, loop_cancel,
                  jobs, man, sclock, wake>>' =
                <<refresh_in_progress, refresh_task, init_pc, loop_pc, loop_cancel,
                  jobs, man, sclock, wake>>]_vars

C30_Witness ==
  /\ shut_pc = "returned" /\ loop_pc = "finished" /\ refresh_task = "none"
  /\ shist.slept /\ shist.cancelAt = sclock /\ sclock < wake /\ shist.cycles = 0
  /\ jobs["cycle"] = "idle"

\* the manual triggers whose background task is scheduled by this step
NewlyQueued == {m \in Manual : man[m].pc # "queued" /\ man'[m].pc = "queued"}

\* this step is the handler of POST /api/calendar/refresh
PostStep == shist'.posts = shist.posts + 1

\* C28: a manual refresh request that finds the flag set schedules no task,
\* leaves the stored events, the metadata, the flag and every running refresh
\* as they are and answers "Refresh already in progress"; a request that
\* finds the flag clear schedules exactly one task and answers "Refresh
\* started".
C28_ManualRefreshFrame ==
  [][PostStep =>
       IF refresh_in_progress
       THEN /\ NewlyQueued = {}
            /\ \A m \in Manual : man'[m].pc = man[m].pc
            /\ \E m \in Manual : man'[m].resp = "already"
            /\ rows' = rows /\ meta' = meta
            /\ refresh_in_progress' = refresh_in_progress
            /\ jobs' = jobs
       ELSE /\ Cardinality(NewlyQueued) = 1
            /\ \A m \in NewlyQueued : man'[m].resp = "started"
            /\ \A m \in Manual \ NewlyQueued : man'[m] = man[m]
            /\ refresh_in_progress' = refresh_in_progress
     ]_vars

C28_Witness ==
  /\ refresh_in_progress
  /\ \E m1, m2 \in Manual :
       /\ man[m1].pc = "refreshing" /\ man[m1].resp = "started"
       /\ man[m2].pc = "idle" /\ man[m2].resp = "already"

(* ========================= the broadcaster ============================ *)
BcastInit == CalRest /\ SelRest /\ SchedRest /\ AuthRest /\ FnRest /\ StrRest /\ BcRest

\* stream_events, routers/realtime.py line 17: broadcaster.subscribe()
BSubscribe(q) ==
  /\ ~qinfo[q].created
  /\ queue' = [queue EXCEPT ![q] = NewQueue(closed)]
  /\ registered' = registered \cup {q}
  /\ qinfo' = [qinfo EXCEPT ![q] = [NoQInfo EXCEPT !.created = TRUE, !.live = TRUE,
                                                    !.since = Len(bhist.published),
                                                    !.late = closed]]
  /\ UNCHANGED <<closed, bhist, wpub>>
  /\ UNCHANGED <<selVars, calVars, schedVars, authVars, fnVars, strVars>>

\* the stream ends without a sentinel (disconnect, shutdown event):
\* routers/realtime.py lines 46-49, broadcaster.unsubscribe(queue)
BUnsubscribe(q) ==
  /\ qinfo[q].live
  /\ registered' = registered \ {q}
  /\ qinfo' = [qinfo EXCEPT ![q].live = FALSE]
  /\ wpub' = [wpub EXCEPT !.stay = @ \ {q}]
  /\ UNCHANGED <<queue, closed, bhist>>
  /\ UNCHANGED <<selVars, calVars, schedVars, authVars, fnVars, strVars>>

\* routers/realtime.py lines 28-40 and 46-49: the handler takes the next
\* entry of its queue; on the sentinel it stops and unsubscribes
BRead(q) ==
  /\ qinfo[q].live
  /\ queue[q] # <<>>
  /\ queue' = [queue EXCEPT ![q] = Tail(@)]
  /\ IF Head(queue[q]) = NoneMsg
     THEN /\ registered' = registered \ {q}
          /\ qinfo' = [qinfo EXCEPT ![q].nread = @ + 1, ![q].gotNone = TRUE,
                                    ![q].live = FALSE]
          /\ wpub' = [wpub EXCEPT !.stay = @ \ {q}]
     ELSE /\ qinfo' = [qinfo EXCEPT ![q].nread = @ + 1]
          /\ UNCHANGED <<registered, wpub>>
  /\ UNCHANGED <<closed, bhist>>
  /\ UNCHANGED <<selVars, calVars, schedVars, authVars, fnVars, strVars>>

\* broadcast_event / publish (lines 31-48, 72-73), the k-th payload
BPublish ==
  /\ bhist.npub < MaxPublish
  /\ LET r == PublishAll(queue, registered, closed, bhist.npub + 1) IN
     /\ queue' = r.queue
     /\ registered' = r.registered
  /\ bhist' = [bhist EXCEPT !.npub = @ + 1,
                 !.published = IF closed THEN @ ELSE Append(@, bhist.npub + 1)]
  /\ wpub' = [wpub EXCEPT !.stay = @ \cap registered']
  /\ UNCHANGED <<closed, qinfo>>
  /\ UNCHANGED <<selVars, calVars, schedVars, authVars, fnVars, strVars>>

\* close() (lines 50-66)
BClose ==
  /\ bhist.nclose < MaxCloses
  /\ LET c == CloseAll(queue, registered, closed) IN
     /\ queue' = c.queue
     /\ closed' = c.closed
  /\ qinfo' = IF closed THEN qinfo
              ELSE [q \in QueueIds |->
                      [qinfo[q] EXCEPT !.atClose = q \in registered,
                                       !.fullAtClose = q \in registered
                                                         /\ Len(queue[q]) = QueueCap]]
  /\ bhist' = [bhist EXCEPT !.nclose = @ + 1]
  /\ UNCHANGED <<registered, wpub>>
  /\ UNCHANGED <<selVars, calVars, schedVars, authVars, fnVars, strVars>>

BcastNext ==
  \/ \E q \in QueueIds : BSubscribe(q)
  \/ \E q \in QueueIds : BUnsubscribe(q)
  \/ \E q \in QueueIds : BRead(q)
  \/ BPublish
  \/ BClose

SpecBcast == BcastInit /\ [][BcastNext]_vars

\* a stream handler whose queue has an entry takes it
FairSpecBcast == SpecBcast /\ \A q \in QueueIds : WF_vars(BRead(q))

\* routers/calendar.py lines 75-86: _do_refresh_and_broadcast runs in a worker
\* thread, finds no event loop there, makes one and runs publish() on it while
\* the server's event loop goes on serving subscribe() and unsubscribe().
\* publish(), lines 32-34: the _closed test and _format_sse
WPublishBegin ==
  /\ wpub.pc = "idle"
  /\ wpub.n < MaxWorkerPublishes
  /\ wpub' = IF closed
             THEN [NoWPub EXCEPT !.pc = "done", !.n = wpub.n + 1,
                                 !.payload = MaxPublish + 1]
             ELSE [NoWPub EXCEPT !.pc = "iter", !.n = wpub.n + 1,
                                 !.payload = MaxPublish + 1,
                                 !.stay = registered]
  /\ UNCHANGED <<queue, registered, closed, qinfo, bhist>>
  /\ UNCHANGED <<selVars, calVars, schedVars, authVars, fnVars, strVars>>

\* publish(), lines 35-48: the set iterator is asked for the next queue (the
\* first time right after it was made).  It raises RuntimeError (Set changed
\* size during iteration) when the set has another size than when the
\* iterator was made; nothing in publish() catches that.  Otherwise it yields
\* a queue not yet visited, which gets the message, or it is exhausted and
\* the dead queues are discarded.
WPublishNext ==
  /\ wpub.pc = "iter"
  /\ LET size0 == IF wpub.started THEN wpub.size0 ELSE Cardinality(registered)
         w == [wpub EXCEPT !.started = TRUE, !.size0 = size0]
     IN IF Cardinality(registered) # size0
        THEN /\ wpub' = [w EXCEPT !.pc = "raised"]
             /\ UNCHANGED <<queue, registered>>
        ELSE IF registered \ w.seen = {}
        THEN /\ registered' = registered \ w.dead
             /\ wpub' = [w EXCEPT !.pc = "done", !.stay = @ \ w.dead]
             /\ UNCHANGED queue
        ELSE \E q \in registered \ w.seen :
               LET r == PublishTo(queue[q], FormatSSE(w.payload)) IN
               /\ queue' = [queue EXCEPT ![q] = r.q]
               /\ wpub' = [w EXCEPT !.seen = @ \cup {q},
                                    !.dead = IF r.dead THEN @ \cup {q} ELSE @,
                                    !.got = IF r.dead THEN @ ELSE @ \cup {q}]
               /\ UNCHANGED registered
  /\ UNCHANGED <<closed, qinfo, bhist>>
  /\ UNCHANGED <<selVars, calVars, schedVars, authVars, fnVars, strVars>>

\* run_until_complete returns or raises; the background task ends
WPublishReturn ==
  /\ wpub.pc \in {"done", "raised"}
  /\ wpub' = [NoWPub EXCEPT !.n = wpub.n]
  /\ UNCHANGED <<queue, registered, closed, qinfo, bhist>>
  /\ UNCHANGED <<selVars, calVars, schedVars, authVars, fnVars, strVars>>

BcastThreadsNext ==
  \/ BcastNext
  \/ WPublishBegin
  \/ WPublishNext
  \/ WPublishReturn

SpecBcastThreads == BcastInit /\ [][BcastThreadsNext]_vars

\* C27: a subscribe() or unsubscribe() that interleaves with the iteration
\* inside publish() never makes publish() raise, and publish() delivers to
\* every queue that stays registered from its start to its end.
C27_SubscriberSetSafety ==
  (wpub.pc \in {"done", "raised"})
    => (wpub.pc = "done" /\ wpub.stay \subseteq wpub.got)

\* the last n entries of a sequence
LastN(seq, n) == SubSeq(seq, Max(1, Len(seq) - n + 1), Len(seq))

\* the frames of the payloads published since queue q was handed out
FramesSince(q) ==
  LET mine == SubSeq(bhist.published, qinfo[q].since + 1, Len(bhist.published))
  IN [i \in DOMAIN mine |-> FormatSSE(mine[i])]

\* C14: a registered queue nobody has read from holds exactly the last
\* min(k, N) of the k messages published since it was handed out, in publish
\* order, and no queue is ever longer than N.
C14_OverflowKeepsNewest ==
  /\ \A q \in QueueIds : Len(queue[q]) <= QueueCap
  /\ ~closed =>
       \A q \in registered :
         qinfo[q].nread = 0 => queue[q] = LastN(FramesSince(q), QueueCap)

C14_Witness ==
  \E q \in registered :
    /\ ~closed /\ qinfo[q].nread = 0
    /\ Len(FramesSince(q)) > QueueCap
    /\ queue[q] = LastN(FramesSince(q), QueueCap)

CountNone(q) == Cardinality({i \in DOMAIN q : q[i] = NoneMsg})

\* C15: close() leaves the sentinel as the last entry of every registered
\* queue, full or not; the sentinel stays there until it is read; and every
\* stream that was registered at close() and keeps reading receives it.
C15_CloseDeliversSentinel ==
  /\ [][(~closed /\ closed') =>
          \A q \in registered : queue'[q] # <<>> /\ queue'[q][Len(queue'[q])] = NoneMsg]_vars
  /\ [](closed => \A q \in QueueIds :
                    (qinfo[q].atClose /\ ~qinfo[q].gotNone) => CountNone(queue[q]) = 1)
  /\ \A q \in QueueIds :
       (closed /\ qinfo[q].atClose) ~> (qinfo[q].gotNone \/ ~qinfo[q].live)

C15_Witness ==
  \E q \in QueueIds : qinfo[q].atClose /\ qinfo[q].fullAtClose /\ qinfo[q].gotNone

\* C16: a subscribe() after close() hands out a registered queue that holds
\* the sentinel and nothing else, and the first read of that queue is the
\* sentinel.
C16_SubscribeAfterClose ==
  [][\A q \in QueueIds :
       /\ (closed /\ ~qinfo[q].created /\ qinfo'[q].created)
            => (queue'[q] = <<NoneMsg>> /\ q \in registered')
       /\ (qinfo[q].late /\ qinfo[q].nread = 0 /\ qinfo'[q].nread = 1)
            => qinfo'[q].gotNone
     ]_vars

C16_Witness ==
  \E q \in QueueIds : qinfo[q].late /\ qinfo[q].gotNone /\ qinfo[q].nread = 1

\* C17: after close(), a publish() and a further close() leave every queue,
\* the subscriber set and the flag as they are, and no queue ever holds more
\* than one sentinel.
C17_NoOpAfterClose ==
  /\ [][(closed /\ (bhist'.npub # bhist.npub \/ bhist'.nclose # bhist.nclose))
          => (queue' = queue /\ registered' = registered /\ closed')]_vars
  /\ [](\A q \in QueueIds : CountNone(queue[q]) <= 1)

C17_Witness ==
  /\ closed /\ bhist.nclose = 2 /\ bhist.npub > Len(bhist.published)
  /\ \E q \in registered : queue[q] = <<FormatSSE(1), NoneMsg>>


\* C39: in every reachable state a queue that holds the close sentinel holds
\* it as its last entry: no message is enqueued behind the sentinel, and the
\* sentinel is not dropped to make room for one.
C39_SentinelIsFinal ==
  \A q \in QueueIds :
    \A i \in DOMAIN queue[q] : queue[q][i] = NoneMsg => i = Len(queue[q])

(* ===================== stream handlers (GET /api/stream) ============== *)
\* the frames a generator yields besides the messages of its queue
ReadyFrame == [kind |-> "ready", body |-> FormatSSE(0)]
PingFrame == [kind |-> "ping", body |-> FormatSSE(0)]

\* yield message (line 40)
MessageFrame(message) == [kind |-> "message", body |-> message]

StreamInit == CalRest /\ SelRest /\ SchedRest /\ AuthRest /\ FnRest /\ BcRest /\ StrRest

\* a handler that forwards whatever its queue holds
OnMessage_ForwardsAll(message) == "yield"

\* lines 37-40: what the generator does with an entry of its queue
OnMessage(message) == IF message = NoneMsg THEN "break" ELSE "yield"

\* the finally block (lines 46-49) after the generator saw what ends it
Finally(h, why) ==
  [h EXCEPT !.pc = "ended", !.why = why, !.sentAtEnd = Len(h.out)]

\* stream_events, line 17: broadcaster.subscribe(); the response is returned
HSubscribe(q) ==
  /\ hs[q].pc = "none"
  /\ ~qinfo[q].created
  /\ queue' = [queue EXCEPT ![q] = NewQueue(closed)]
  /\ registered' = registered \cup {q}
  /\ qinfo' = [qinfo EXCEPT ![q] = [NoQInfo EXCEPT !.created = TRUE, !.live = TRUE,
                                                    !.since = Len(bhist.published),
                                                    !.late = closed]]
  /\ hs' = [hs EXCEPT ![q].pc = "new"]
  /\ UNCHANGED <<closed, bhist, wpub, shutdown_event>>
  /\ UNCHANGED <<selVars, calVars, schedVars, authVars, fnVars>>

\* lines 20-23: the generator starts, yields the ready frame and, resumed,
\* makes the task that waits for the shutdown event
HReady(q) ==
  /\ hs[q].pc = "new"
  /\ hs' = [hs EXCEPT ![q].pc = "top", ![q].out = Append(@, ReadyFrame)]
  /\ UNCHANGED <<bcVars, shutdown_event>>
  /\ UNCHANGED <<selVars, calVars, schedVars, authVars, fnVars>>

\* lines 24-28: the disconnect test at the top of the loop
HTop(q) ==
  /\ hs[q].pc = "top"
  /\ IF hs[q].gone
     THEN /\ hs' = [hs EXCEPT ![q] = Finally(@, "disconnect")]
          /\ registered' = registered \ {q}
          /\ qinfo' = [qinfo EXCEPT ![q].live = FALSE]
          /\ wpub' = [wpub EXCEPT !.stay = @ \ {q}]
     ELSE /\ hs' = [hs EXCEPT ![q].pc = "wait"]
          /\ UNCHANGED <<registered, qinfo, wpub>>
  /\ UNCHANGED <<queue, closed, bhist, shutdown_event>>
  /\ UNCHANGED <<selVars, calVars, schedVars, authVars, fnVars>>

\* lines 29-35: asyncio.wait returns with the shutdown task done.  The task of
\* queue.get(), made first, has by then taken an entry if the queue had one
\* (taken is TRUE) or is still pending; in both cases the loop is left.
HShutdown(q, taken) ==
  /\ hs[q].pc = "wait"
  /\ shutdown_event
  /\ taken => queue[q] # <<>>
  /\ queue' = [queue EXCEPT ![q] = IF taken THEN Tail(@) ELSE @]
  /\ hs' = [hs EXCEPT ![q] = Finally(@, "shutdown")]
  /\ registered' = registered \ {q}
  /\ qinfo' = [qinfo EXCEPT ![q].live = FALSE,
                            ![q].nread = IF taken THEN @ + 1 ELSE @]
  /\ wpub' = [wpub EXCEPT !.stay = @ \ {q}]
  /\ UNCHANGED <<closed, bhist, shutdown_event>>
  /\ UNCHANGED <<selVars, calVars, schedVars, authVars, fnVars>>

\* lines 36-40: asyncio.wait returns with the task of queue.get() done
HMessage(q) ==
  /\ hs[q].pc = "wait"
  /\ ~shutdown_event
  /\ queue[q] # <<>>
  /\ queue' = [queue EXCEPT ![q] = Tail(@)]
  /\ LET message == Head(queue[q]) IN
     IF OnMessage(message) = "break"
     THEN /\ hs' = [hs EXCEPT ![q] = Finally(@, "sentinel")]
          /\ registered' = registered \ {q}
          /\ qinfo' = [qinfo EXCEPT ![q].nread = @ + 1, ![q].live = FALSE,
                                    ![q].gotNone = TRUE]
          /\ wpub' = [wpub EXCEPT !.stay = @ \ {q}]
     ELSE /\ hs' = [hs EXCEPT ![q].pc = "top", ![q].out = Append(@, MessageFrame(message))]
          /\ qinfo' = [qinfo EXCEPT ![q].nread = @ + 1]
          /\ UNCHANGED <<registered, wpub>>
  /\ UNCHANGED <<closed, bhist, shutdown_event>>
  /\ UNCHANGED <<selVars, calVars, schedVars, authVars, fnVars>>

\* lines 41-43: asyncio.wait times out after 15 s with both tasks pending
HTimeout(q) ==
  /\ hs[q].pc = "wait"
  /\ ~shutdown_event
  /\ queue[q] = <<>>
  /\ hs[q].pings < MaxPings
  /\ hs' = [hs EXCEPT ![q].pc = "top", ![q].pings = @ + 1,
                       ![q].out = Append(@, PingFrame)]
  /\ UNCHANGED <<bcVars, shutdown_event>>
  /\ UNCHANGED <<selVars, calVars, schedVars, authVars, fnVars>>

\* the client closes the connection
HDisconnect(q) ==
  /\ hs[q].pc \in {"new", "top", "wait"}
  /\ ~hs[q].gone
  /\ hs' = [hs EXCEPT ![q].gone = TRUE]
  /\ UNCHANGED <<bcVars, shutdown_event>>
  /\ UNCHANGED <<selVars, calVars, schedVars, authVars, fnVars>>

\* the server ends the response of a client that is gone: the started
\* generator is cancelled inside asyncio.wait or closed at its yield, and
\* its finally block runs
HCancel(q) ==
  /\ hs[q].pc \in {"top", "wait"}
  /\ hs[q].gone
  /\ hs' = [hs EXCEPT ![q] = Finally(@, "cancel")]
  /\ registered' = registered \ {q}
  /\ qinfo' = [qinfo EXCEPT ![q].live = FALSE]
  /\ wpub' = [wpub EXCEPT !.stay = @ \ {q}]
  /\ UNCHANGED <<queue, closed, bhist, shutdown_event>>
  /\ UNCHANGED <<selVars, calVars, schedVars, authVars, fnVars>>

\* main.py lines 96-101: the signal handler sets the shutdown event
HSetShutdown ==
  /\ ~shutdown_event
  /\ shutdown_event' = TRUE
  /\ UNCHANGED <<bcVars, hs>>
  /\ UNCHANGED <<selVars, calVars, schedVars, authVars, fnVars>>

\* broadcast_event / publish on the event loop while streams are open
HPublish ==
  /\ bhist.npub < MaxStreamPublishes
  /\ BPublish

\* one step of the generator of stream q
HStep(q) ==
  \/ HReady(q)
  \/ HTop(q)
  \/ \E taken \in BOOLEAN : HShutdown(q, taken)
  \/ HMessage(q)

StreamNext ==
  \/ \E q \in QueueIds : HSubscribe(q)
  \/ \E q \in QueueIds : HStep(q)
  \/ \E q \in QueueIds : HTimeout(q)
  \/ \E q \in QueueIds : HDisconnect(q)
  \/ \E q \in QueueIds : HCancel(q)
  \/ HSetShutdown
  \/ HPublish
  \/ BClose

SpecStream == StreamInit /\ [][StreamNext]_vars

\* the event loop runs a generator that can go on: the response is iterated,
\* and asyncio.wait returns as soon as one of its tasks is done
FairSpecStream == SpecStream /\ \A q \in QueueIds : WF_vars(HStep(q))

\* the handler of stream q runs
Running(q) == hs[q].pc \in {"new", "top", "wait"}

C35_WitnessShutdown ==
  \E q \in QueueIds :
    /\ hs[q].pc = "ended" /\ hs[q].why = "shutdown" /\ q \notin registered
    /\ hs[q].out = <<ReadyFrame>> /\ queue[q] # <<>>

C35_WitnessDisconnect ==
  \E q \in QueueIds :
    /\ hs[q].pc = "ended" /\ hs[q].why = "disconnect" /\ q \notin registered
    /\ Len(hs[q].out) >= 2


(* ========================= authentication ============================= *)
\* int(time.time())
IntTime(t) == t \div UnitsPerSec

\* the sessions a request may arrive with
SessionChoices ==
  { [user |-> u, access_token |-> a, refresh_token |-> r, has_ts |-> h,
     token_validated_at |-> ts] :
      u \in {"", "alice"}, a \in {"", "a1"}, r \in {"", "r1"},
      h \in BOOLEAN, ts \in {0, 1} }

\* what the userinfo endpoint may answer: a network error or a status
UserinfoResponses ==
  {[err |-> TRUE, status |-> 0]}
    \cup {[err |-> FALSE, status |-> c] : c \in {200, 401, 403, 500}}

\* what the token endpoint may answer
TokenResponses ==
  {[err |-> TRUE, status |-> 0, access |-> "", refresh |-> ""],
   [err |-> FALSE, status |-> 400, access |-> "", refresh |-> ""]}
    \cup {[err |-> FALSE, status |-> 200, access |-> a, refresh |-> r] :
            a \in {"", "a2"}, r \in {"", "r2"}}

AuthInit ==
  /\ CalRest /\ SelRest /\ BcRest /\ SchedRest /\ FnRest /\ StrRest
  /\ session \in {x \in SessionChoices : x.has_ts \/ x.token_validated_at = 0}
  /\ atime \in 0..(MaxSecs * UnitsPerSec)
  /\ req \in {[IdleReq EXCEPT !.issuer = i] : i \in BOOLEAN}

\* a revalidation test that waits for more than the interval
NeedsRevalidation_Strict(sess, t) ==
  sess.has_ts /\ (IntTime(t) - sess.token_validated_at) > TOKEN_REVALIDATION_INTERVAL

\* a revalidation test that ignores the age of the timestamp
NeedsRevalidation_Always(sess, t) == sess.has_ts

\* _needs_revalidation (lines 92-98)
NeedsRevalidation(sess, t) ==
  sess.has_ts /\ (IntTime(t) - sess.token_validated_at) >= TOKEN_REVALIDATION_INTERVAL

\* a validation that takes a network error or an unexpected status for a rejection
UserinfoVerdict_FailClosed(resp) ==
  IF ~resp.err /\ resp.status = 200 THEN "stamp"
  ELSE IF ~resp.err /\ resp.status \in {401, 403} THEN "refresh"
  ELSE "reject"

\* a validation that refreshes on 401 only
UserinfoVerdict_Only401(resp) ==
  IF resp.err THEN "pass"
  ELSE IF resp.status = 200 THEN "stamp"
  ELSE IF resp.status = 401 THEN "refresh"
  ELSE "pass"

\* a validation that takes a status other than 200, 401 and 403 for a rejection
UserinfoVerdict_RejectsOther(resp) ==
  IF resp.err THEN "pass"
  ELSE IF resp.status = 200 THEN "stamp"
  ELSE IF resp.status \in {401, 403} THEN "refresh"
  ELSE "reject"

\* _validate_token, lines 46-56: what the answer of userinfo leads to
UserinfoVerdict(resp) ==
  IF resp.err THEN "pass"
  ELSE IF resp.status = 200 THEN "stamp"
  ELSE IF resp.status \in {401, 403} THEN "refresh"
  ELSE "pass"

\* a validation that returns true on 200 and leaves the timestamp as it was
Stamp_Skipped(sess, t) == sess

\* line 47: request.session["token_validated_at"] = int(time.time())
Stamp(sess, t) == [sess EXCEPT !.has_ts = TRUE, !.token_validated_at = IntTime(t)]

\* a rotation that stores the refresh token of the answer even when it is absent
Rotate_AlwaysOverwrite(sess, resp, t) ==
  [sess EXCEPT !.access_token = resp.access, !.refresh_token = resp.refresh,
               !.has_ts = TRUE, !.token_validated_at = IntTime(t)]

\* _try_refresh_token, lines 80-84: the session after a 200 of the token endpoint
Rotate(sess, resp, t) ==
  [sess EXCEPT !.access_token = resp.access,
               !.refresh_token = IF resp.refresh # "" THEN resp.refresh ELSE @,
               !.has_ts = TRUE, !.token_validated_at = IntTime(t)]

\* a refresh that takes a network error for a refusal
TryRefreshAnswer_FailClosed(sess, resp, t) ==
  IF ~resp.err /\ resp.status = 200
  THEN [ret |-> TRUE, session |-> Rotate(sess, resp, t)]
  ELSE [ret |-> FALSE, session |-> sess]

\* a refresh that takes a network error for a success and stamps the session
TryRefreshAnswer_StampsOnError(sess, resp, t) ==
  IF resp.err THEN [ret |-> TRUE, session |-> Stamp(sess, t)]
  ELSE IF resp.status = 200 THEN [ret |-> TRUE, session |-> Rotate(sess, resp, t)]
  ELSE [ret |-> FALSE, session |-> sess]

\* _try_refresh_token, lines 79-89: the return value and the session once the
\* token endpoint has answered
TryRefreshAnswer(sess, resp, t) ==
  IF resp.err THEN [ret |-> TRUE, session |-> sess]
  ELSE IF resp.status = 200 THEN [ret |-> TRUE, session |-> Rotate(sess, resp, t)]
  ELSE [ret |-> FALSE, session |-> sess]

\* True / False of the code, as the history records it
BoolStr(b) == IF b THEN "true" ELSE "false"

\* get_current_user raises 401, get_optional_user returns None
Unauthenticated(kind) == IF kind = "current" THEN "401" ELSE "None"

\* call sites that answer 401 / None and leave the session in place
Finish_KeepSession(r, sess, v) ==
  IF v
  THEN [req |-> [r EXCEPT !.pc = "done", !.validated = "true", !.result = "user"],
        session |-> sess]
  ELSE [req |-> [r EXCEPT !.pc = "done", !.validated = "false",
                          !.result = Unauthenticated(r.kind)],
        session |-> sess]

\* _validate_token has returned v: lines 108-112 / 126-130
Finish(r, sess, v) ==
  IF v
  THEN [req |-> [r EXCEPT !.pc = "done", !.validated = "true", !.result = "user"],
        session |-> sess]
  ELSE [req |-> [r EXCEPT !.pc = "done", !.validated = "false", !.cleared = TRUE,
                          !.result = Unauthenticated(r.kind)],
        session |-> NoSession]

\* get_current_user / get_optional_user up to the first request to the
\* provider (lines 103-108, 94-98, 36-42)
AReqBegin(kind) ==
  /\ req.pc = "idle"
  /\ req.n < MaxReqs
  /\ LET r0 == [IdleReq EXCEPT !.kind = kind, !.issuer = req.issuer, !.s0 = session,
                               !.last = req.last,
                               !.ticks = req.ticks, !.n = req.n + 1]
     IN IF session.user = ""
        THEN /\ req' = [r0 EXCEPT !.pc = "done", !.result = Unauthenticated(kind)]
             /\ UNCHANGED session
        ELSE LET r1 == [r0 EXCEPT !.checked = TRUE, !.tcheck = atime,
                                  !.needs = NeedsRevalidation(session, atime)]
             IN IF ~r1.needs
                THEN /\ req' = [r1 EXCEPT !.pc = "done", !.result = "user"]
                     /\ UNCHANGED session
                ELSE IF session.access_token = "" \/ ~req.issuer
                THEN /\ req' = Finish(r1, session, TRUE).req
                     /\ UNCHANGED session
                ELSE /\ req' = [r1 EXCEPT !.pc = "userinfo"]
                     /\ UNCHANGED session
  /\ UNCHANGED atime
  /\ UNCHANGED <<selVars, calVars, bcVars, schedVars, fnVars, strVars>>

\* _validate_token, lines 42-56, and _try_refresh_token, lines 64-70: the
\* answer of userinfo arrives
AUserinfo(resp) ==
  /\ req.pc = "userinfo"
  /\ LET r1 == [req EXCEPT !.calls = Append(@, "userinfo"),
                           !.uiStatus = IF resp.err THEN -1 ELSE resp.status,
                           !.tui = atime]
         v == UserinfoVerdict(resp)
         f == CASE v = "pass" -> Finish(r1, session, TRUE)
                [] v = "stamp" -> Finish(r1, Stamp(session, atime), TRUE)
                [] v = "refresh" ->
                     LET r2 == [r1 EXCEPT !.refreshes = @ + 1, !.sref = session] IN
                     IF session.refresh_token = "" \/ ~req.issuer
                     THEN Finish([r2 EXCEPT !.refreshed = "false", !.sret = session],
                                 session, FALSE)
                     ELSE [req |-> [r2 EXCEPT !.pc = "token"], session |-> session]
                [] OTHER -> Finish(r1, session, FALSE)
     IN /\ req' = f.req
        /\ session' = f.session
  /\ UNCHANGED atime
  /\ UNCHANGED <<selVars, calVars, bcVars, schedVars, fnVars, strVars>>

\* _try_refresh_token, lines 70-89: the answer of the token endpoint arrives
AToken(resp) ==
  /\ req.pc = "token"
  /\ LET a == TryRefreshAnswer(session, resp, atime)
         r1 == [req EXCEPT !.calls = Append(@, "token"),
                           !.tok = [resp EXCEPT !.status = IF resp.err THEN -1 ELSE @],
                           !.tnow = atime,
                           !.refreshed = BoolStr(a.ret), !.sret = a.session]
         f == Finish(r1, a.session, a.ret)
     IN /\ req' = f.req
        /\ session' = f.session
  /\ UNCHANGED atime
  /\ UNCHANGED <<selVars, calVars, bcVars, schedVars, fnVars, strVars>>

\* what the request that ends leaves behind for the next one: the moment it
\* renewed token_validated_at (line 47 or line 84), if it did
Renewal(r) ==
  IF r.cleared THEN [how |-> "none", t |-> 0]
  ELSE IF r.uiStatus = 200 THEN [how |-> "userinfo", t |-> r.tui]
  ELSE IF r.refreshes = 1 /\ r.tok.status = 200 THEN [how |-> "refresh", t |-> r.tnow]
  ELSE r.last

\* the request is answered; the session goes back into the cookie
AReqEnd ==
  /\ req.pc = "done"
  /\ req' = [IdleReq EXCEPT !.issuer = req.issuer, !.ticks = req.ticks, !.n = req.n,
                             !.last = Renewal(req)]
  /\ UNCHANGED <<session, atime>>
  /\ UNCHANGED <<selVars, calVars, bcVars, schedVars, fnVars, strVars>>

\* time.time() moves on
ATick ==
  /\ req.ticks < MaxAuthTicks
  /\ atime < MaxSecs * UnitsPerSec
  /\ atime' = atime + 1
  /\ req' = [req EXCEPT !.ticks = @ + 1]
  /\ UNCHANGED session
  /\ UNCHANGED <<selVars, calVars, bcVars, schedVars, fnVars, strVars>>

AuthNext ==
  \/ \E k \in {"current", "optional"} : AReqBegin(k)
  \/ \E resp \in UserinfoResponses : AUserinfo(resp)
  \/ \E resp \in TokenResponses : AToken(resp)
  \/ AReqEnd
  \/ ATick

SpecAuth == AuthInit /\ [][AuthNext]_vars

\* the time between the stored timestamp and the call, in clock units
Elapsed(r) == r.tcheck - r.s0.token_validated_at * UnitsPerSec

\* C18 (as stated): needs_revalidation is true iff the session has the
\* timestamp and more than the interval has elapsed since it.
C18_MoreThanInterval ==
  req.checked =>
    (req.needs <=> (req.s0.has_ts
                      /\ Elapsed(req) > TOKEN_REVALIDATION_INTERVAL * UnitsPerSec))

\* C18 (amended): needs_revalidation is true iff the session has the
\* timestamp and at least the interval has elapsed since it; without the
\* timestamp it is false whatever the time.
C18_AtLeastInterval ==
  req.checked =>
    /\ req.needs <=> (req.s0.has_ts
                        /\ Elapsed(req) >= TOKEN_REVALIDATION_INTERVAL * UnitsPerSec)
    /\ ~req.s0.has_ts => ~req.needs

C18_Witness ==
  /\ req.checked /\ req.needs /\ req.s0.has_ts
  /\ Elapsed(req) = TOKEN_REVALIDATION_INTERVAL * UnitsPerSec

\* C19: when userinfo ends in a network error or in a status other than 200,
\* 401 and 403, validate returns true, the session is as it was when the
\* request began and the user stays logged in.
C19_FailOpen ==
  (req.pc = "done" /\ req.uiStatus \notin {0, 200, 401, 403})
    => /\ req.validated = "true"
       /\ session = req.s0
       /\ req.result = "user"
       /\ ~req.cleared
       /\ req.calls = <<"userinfo">>

C19_Witness ==
  /\ req.pc = "done" /\ req.uiStatus = -1 /\ req.validated = "true"
  /\ session.access_token # "" /\ session = req.s0

\* C20: when userinfo answers 401 or 403, validate calls refresh exactly once
\* and returns what refresh returned; in every other case refresh is not called.
C20_RejectionTriggersRefresh ==
  req.pc = "done" =>
    /\ req.uiStatus \in {401, 403}
         => (req.refreshes = 1 /\ req.refreshed # "none" /\ req.validated = req.refreshed)
    /\ req.uiStatus \notin {401, 403}
         => (req.refreshes = 0 /\ req.refreshed = "none" /\ "token" \notin Range(req.calls))

C20_Witness ==
  /\ req.pc = "done" /\ req.uiStatus = 403 /\ req.refreshes = 1
  /\ req.calls = <<"userinfo", "token">> /\ req.refreshed = "false" /\ req.cleared

\* _try_refresh_token was called and the token endpoint answered with status c
TokenAnswered(r, c) == r.refreshes = 1 /\ r.tok.status = c

\* C21: when the token endpoint answers 200, refresh stores the issued access
\* token, stores the refresh token of the answer if and only if the answer
\* carries one (otherwise the old one stays), sets the validation timestamp
\* to the clock at that moment, leaves the user claims alone and returns true.
C21_Rotation ==
  (req.pc = "done" /\ TokenAnswered(req, 200))
    => /\ req.sret.access_token = req.tok.access
       /\ req.tok.refresh # "" => req.sret.refresh_token = req.tok.refresh
       /\ req.tok.refresh = "" => req.sret.refresh_token = req.sref.refresh_token
       /\ req.sret.has_ts /\ req.sret.token_validated_at = IntTime(req.tnow)
       /\ req.sret.user = req.sref.user
       /\ req.refreshed = "true"
       /\ session = req.sret

C21_Witness ==
  /\ req.pc = "done" /\ TokenAnswered(req, 200)
  /\ req.tok.refresh = "" /\ req.tok.access = "a2"
  /\ session.access_token = "a2" /\ session.refresh_token = "r1"
  /\ req.tnow > req.tcheck /\ session.token_validated_at = IntTime(req.tnow)
  /\ session.token_validated_at # req.s0.token_validated_at

\* C22: refresh returns false exactly when the session has no refresh token
\* (then the token endpoint is not called) or the token endpoint answers with
\* a status other than 200; in both cases refresh returns with the session
\* as it found it.
C22_RefreshRefused ==
  (req.pc = "done" /\ req.refreshes = 1)
    => /\ req.refreshed = "false"
            <=> (req.sref.refresh_token = "" \/ req.tok.status \notin {-1, 0, 200})
       /\ req.sref.refresh_token = "" => "token" \notin Range(req.calls)
       /\ req.refreshed = "false" => req.sret = req.sref

C22_Witness ==
  /\ req.pc = "done" /\ req.refreshes = 1 /\ req.refreshed = "false"
  /\ req.sref.refresh_token = "r1" /\ req.tok.status = 400
  /\ req.sret = req.sref /\ req.sret.access_token = "a1"

C22_WitnessNoToken ==
  /\ req.pc = "done" /\ req.refreshes = 1 /\ req.refreshed = "false"
  /\ req.sref.refresh_token = "" /\ req.calls = <<"userinfo">>

\* C23: on a request with a logged-in session, when needs_revalidation is
\* true and validate returns false the session is emptied and the caller is
\* unauthenticated (401 from get_current_user, None from get_optional_user);
\* in every other case the user is returned and the session is not cleared.
C23_Invalidation ==
  (req.pc = "done" /\ req.s0.user # "")
    => IF req.needs /\ req.validated = "false"
       THEN /\ session = NoSession /\ req.cleared
            /\ req.kind = "current" => req.result = "401"
            /\ req.kind = "optional" => req.result = "None"
       ELSE /\ req.result = "user" /\ ~req.cleared
            /\ session.user = req.s0.user

C23_Witness ==
  /\ req.pc = "done" /\ req.s0.user = "alice" /\ req.s0.access_token = "a1"
  /\ req.needs /\ req.validated = "false" /\ req.kind = "optional"
  /\ session = NoSession /\ req.result = "None"

\* C31: when userinfo answers 200, validate sets the validation timestamp to
\* the clock at that moment, changes no other field of the session, sends
\* nothing to the token endpoint and returns true.
C31_SuccessfulValidation ==
  (req.pc = "done" /\ req.uiStatus = 200)
    => /\ session.has_ts /\ session.token_validated_at = IntTime(req.tui)
       /\ session = [req.s0 EXCEPT !.has_ts = TRUE,
                                    !.token_validated_at = session.token_validated_at]
       /\ req.calls = <<"userinfo">> /\ req.refreshes = 0
       /\ req.validated = "true" /\ req.result = "user" /\ ~req.cleared

C31_Witness ==
  /\ req.pc = "done" /\ req.uiStatus = 200 /\ req.validated = "true"
  /\ req.tui > req.tcheck
  /\ session.token_validated_at = IntTime(req.tui)
  /\ session.token_validated_at > req.s0.token_validated_at
  /\ session.refresh_token = "r1" /\ session.access_token = "a1"

\* C32: when the request to the token endpoint ends in a network error,
\* refresh returns true and leaves the session (tokens, timestamp, user) as
\* it was, so the caller keeps the user logged in.
C32_FailOpenRefresh ==
  (req.pc = "done" /\ TokenAnswered(req, -1))
    => /\ req.refreshed = "true" /\ req.validated = "true"
       /\ req.sret = req.sref /\ req.sref = req.s0
       /\ session = req.s0
       /\ req.result = "user" /\ ~req.cleared

C32_Witness ==
  /\ req.pc = "done" /\ TokenAnswered(req, -1) /\ req.uiStatus = 401
  /\ req.calls = <<"userinfo", "token">> /\ req.refreshed = "true"
  /\ req.tnow > req.tcheck
  /\ session = req.s0 /\ session.refresh_token = "r1" /\ req.result = "user"

\* C37: the authentication check clears a session only after an explicit
\* rejection: userinfo answered 401 or 403 in that request, and then the
\* session had no refresh token or the token endpoint answered with a status
\* other than 200. A request that saw only network errors or other statuses
\* ends with the user still in the session.
C37_ClearedOnlyAfterRejection ==
  /\ req.cleared
       => /\ req.uiStatus \in {401, 403}
          /\ \/ req.sref.refresh_token = "" /\ "token" \notin Range(req.calls)
             \/ "token" \in Range(req.calls) /\ req.tok.status \notin {-1, 0, 200}
  /\ (req.pc # "idle" /\ req.s0.user # "" /\ ~req.cleared)
       => session.user = req.s0.user
  /\ (req.pc = "done" /\ req.s0.user # "" /\ req.uiStatus \notin {401, 403})
       => session # NoSession

C37_Witness ==
  /\ req.pc = "done" /\ req.cleared /\ session = NoSession
  /\ req.s0.user = "alice" /\ req.uiStatus = 401
  /\ req.calls = <<"userinfo", "token">> /\ req.tok.status = 400

C37_WitnessKept ==
  /\ req.pc = "done" /\ ~req.cleared /\ req.uiStatus = 403
  /\ req.calls = <<"userinfo", "token">> /\ req.tok.status = -1
  /\ session.user = "alice"

\* whole seconds of the clock between the renewal and the check of request r
SinceRenewal(r) == IntTime(r.tcheck) - IntTime(r.last.t)

C38_WitnessUserinfo ==
  /\ req.pc = "done" /\ req.last.how = "userinfo" /\ req.checked /\ ~req.needs
  /\ req.calls = <<>> /\ req.result = "user"


(* ========================= calendar selection ========================= *)
\* settings.apple_calendar_names as split at the commas, and the credentials
SelNameChoices ==
  { <<>>, <<"Work">>, <<"Personal", "Work">>, <<"Work", "NonExistent">>,
    <<"NonExistent">>, <<"", "Work">>, <<"">> }

SelSettingsChoices ==
  { [creds |-> c, names |-> n] : c \in BOOLEAN, n \in SelNameChoices }

\* the calendar lists the CalDAV principal may have
PrincipalChoices ==
  { <<>>, <<"Work">>, <<"Personal", "Work">>, <<"Work", "Personal">> }

SelInit ==
  /\ today = Day0
  /\ now = 0
  /\ settings \in SelSettingsChoices
  /\ upstream = EventUniverse
  /\ outage \in {"none", "all"}
  /\ calendars_cache = [time |-> 0, cals |-> <<>>]
  /\ rows = {}
  /\ meta = NoMeta
  /\ loc = [p \in Procs |-> IdleLoc]
  /\ prevF = NoPrev
  /\ quiet = FALSE
  /\ changes = 0
  /\ ops = 0
  /\ principal \in PrincipalChoices
  /\ resolved = NoResolved
  /\ BcRest /\ SchedRest /\ AuthRest /\ FnRest /\ StrRest

\* one call of _get_selected_calendars_sync
SelResolve ==
  /\ resolved.n < MaxResolves
  /\ LET r == GetSelectedCalendars(calendars_cache, now, settings, outage)
     IN /\ calendars_cache' = r.cache
        /\ resolved' = [resolved EXCEPT
              !.n = @ + 1, !.names = SelectedNames(settings),
              !.cache0 = calendars_cache, !.t = now,
              !.all = IF r.enum THEN GetAllCalendars(settings, outage).val ELSE <<>>,
              !.enum = r.enum, !.val = r.val, !.cache1 = r.cache,
              !.up = principal, !.reach = (settings.creds /\ outage = "none"),
              !.renamed = FALSE, !.afterRename = resolved.renamed]
  /\ UNCHANGED <<today, now, settings, upstream, outage, rows, meta, loc, prevF,
                 quiet, changes, ops, principal>>
  /\ UNCHANGED <<bcVars, schedVars, authVars, fnVars, strVars>>

\* the process is restarted with another environment: get_settings() is
\* computed anew (line 15) and _calendars_cache starts empty (line 38)
SelRestart ==
  /\ resolved.restarts < MaxRestarts
  /\ \E st \in SelSettingsChoices :
       /\ settings' = st
       /\ resolved' = [resolved EXCEPT
             !.restarts = @ + 1,
             !.renamed = @ \/ SelectedNames(st) # SelectedNames(settings)]
  /\ calendars_cache' = [time |-> 0, cals |-> <<>>]
  /\ UNCHANGED <<today, now, upstream, outage, rows, meta, loc, prevF,
                 quiet, changes, ops, principal>>
  /\ UNCHANGED <<bcVars, schedVars, authVars, fnVars, strVars>>

\* a calendar is created, deleted or reordered upstream
SelPrincipalChange ==
  /\ resolved.changes < MaxSelChanges
  /\ \E cals \in PrincipalChoices \ {principal} : principal' = cals
  /\ resolved' = [resolved EXCEPT !.changes = @ + 1]
  /\ UNCHANGED <<calVars, bcVars, schedVars, authVars, fnVars, strVars>>

\* upstream becomes unreachable or reachable again
SelOutageChange ==
  /\ resolved.changes < MaxSelChanges
  /\ outage' = IF outage = "none" THEN "all" ELSE "none"
  /\ resolved' = [resolved EXCEPT !.changes = @ + 1]
  /\ UNCHANGED <<today, now, settings, upstream, calendars_cache, rows, meta, loc,
                 prevF, quiet, changes, ops, principal>>
  /\ UNCHANGED <<bcVars, schedVars, authVars, fnVars, strVars>>

\* time.time() moves on
SelTick ==
  /\ resolved.ticks < MaxSelTicks
  /\ now' = now + CALENDAR_CACHE_TTL \div SelTicksPerTtl
  /\ resolved' = [resolved EXCEPT !.ticks = @ + 1]
  /\ UNCHANGED <<today, settings, upstream, outage, calendars_cache, rows, meta, loc,
                 prevF, quiet, changes, ops, principal>>
  /\ UNCHANGED <<bcVars, schedVars, authVars, fnVars, strVars>>

SelNext ==
  \/ SelResolve
  \/ SelRestart
  \/ SelPrincipalChange
  \/ SelOutageChange
  \/ SelTick

SpecSel == SelInit /\ [][SelNext]_vars

\* the calendars of a list whose name is one of the names
Matching(cals, names) == SelectSeqBy(cals, Range(names))

\* C24 (as stated): whenever upstream (reachable with the credentials) has a
\* calendar the result is not empty; it is the first upstream calendar when
\* names are configured and none matches, and otherwise the upstream
\* calendars with a configured name.
C24_NeverEmptyAsStated ==
  (resolved.n > 0 /\ resolved.reach /\ resolved.up # <<>>)
    => /\ resolved.val # <<>>
       /\ IF resolved.names # <<>> /\ Matching(resolved.up, resolved.names) = <<>>
          THEN resolved.val = <<resolved.up[1]>>
          ELSE resolved.val = Matching(resolved.up, resolved.names)

\* C24 (amended): a call that enumerates upstream and finds a calendar
\* returns the upstream calendars with a configured name when names are
\* configured and one matches, and the first upstream calendar alone when no
\* names are configured or none matches; a call answered from the cache
\* returns the cached selection, which is not empty.
C24_NeverEmpty ==
  resolved.n > 0 =>
    /\ (resolved.enum /\ resolved.all # <<>>)
         => /\ resolved.val # <<>>
            /\ IF resolved.names # <<>> /\ Matching(resolved.all, resolved.names) # <<>>
               THEN resolved.val = Matching(resolved.all, resolved.names)
               ELSE resolved.val = <<resolved.all[1]>>
    /\ ~resolved.enum => (resolved.val = resolved.cache0.cals /\ resolved.val # <<>>)
    /\ resolved.val = <<>> => (resolved.enum /\ resolved.all = <<>>)

C24_Witness ==
  /\ resolved.n > 0 /\ resolved.enum
  /\ resolved.names = <<"NonExistent">> /\ resolved.all = <<"Personal", "Work">>
  /\ resolved.val = <<"Personal">>

\* the age of the cache a call found
CacheAge(r) == r.t - r.cache0.time

\* C25 (as stated): a call answers from the cache only if the cache is
\* younger than the TTL and the cached names are the configured names (or no
\* names are configured and one calendar is cached); after the TTL or a change
\* of the configured names the next call enumerates upstream and recomputes.
C25_CacheConsistencyAsStated ==
  resolved.n > 0 =>
    /\ ~resolved.enum
         => /\ CacheAge(resolved) < CALENDAR_CACHE_TTL
            /\ \/ Range(resolved.cache0.cals) = Range(resolved.names)
               \/ (resolved.names = <<>> /\ Len(resolved.cache0.cals) = 1)
    /\ (CacheAge(resolved) >= CALENDAR_CACHE_TTL \/ resolved.afterRename) => resolved.enum

\* C25 (amended): a call answers from the cache only if the cache is not
\* empty, younger than the TTL, and every cached name is a configured name
\* (or no names are configured and one calendar is cached); after the TTL or
\* a change of the configured names the next call enumerates upstream, and
\* when it finds a calendar it stores the new selection with the time.
C25_CacheConsistency ==
  resolved.n > 0 =>
    /\ ~resolved.enum
         => /\ resolved.cache0.cals # <<>>
            /\ CacheAge(resolved) < CALENDAR_CACHE_TTL
            /\ \/ /\ resolved.names # <<>>
                  /\ Range(resolved.cache0.cals) \subseteq Range(resolved.names)
               \/ (resolved.names = <<>> /\ Len(resolved.cache0.cals) = 1)
            /\ resolved.cache1 = resolved.cache0
    /\ (CacheAge(resolved) >= CALENDAR_CACHE_TTL \/ resolved.afterRename) => resolved.enum
    /\ (resolved.enum /\ resolved.all # <<>>)
         => resolved.cache1 = [time |-> resolved.t, cals |-> resolved.val]

C25_Witness ==
  /\ resolved.n > 1 /\ ~resolved.enum
  /\ resolved.names = <<"Work", "NonExistent">> /\ resolved.cache0.cals = <<"Work">>
  /\ CacheAge(resolved) > 0 /\ resolved.val = <<"Work">>

C25_WitnessExpired ==
  /\ resolved.n > 1 /\ resolved.enum /\ resolved.cache0.cals = <<"Work">>
  /\ CacheAge(resolved) = CALENDAR_CACHE_TTL /\ resolved.names = <<"Work">>
  /\ resolved.cache1.time = resolved.t


(* ================== functions of their arguments alone ================ *)
\* the first day the calls below are made for
ProbeDay == 10

\* what upstream may hold: two named calendars and one without a name; an
\* entry whose start lies a day before its end, an entry that is no iCalendar
ProbeEvents ==
  { [cal |-> "Personal", title |-> "P", start |-> Ts(ProbeDay, 1), end |-> Ts(ProbeDay, 1)],
    [cal |-> "Work", title |-> "W", start |-> Ts(ProbeDay - 1, 1), end |-> Ts(ProbeDay, 0)],
    [cal |-> "Work", title |-> "V", start |-> Ts(ProbeDay + 1, 0), end |-> Ts(ProbeDay + 1, 1)],
    [cal |-> "Work", title |-> Unparsable, start |-> Ts(ProbeDay, 0), end |-> Ts(ProbeDay, 0)],
    [cal |-> "", title |-> "N", start |-> Ts(ProbeDay, 0), end |-> Ts(ProbeDay, 1)] }

\* the selections _get_selected_calendars_sync may return
ProbeSelections ==
  { <<"Personal", "Work">>, <<"Work", "Personal">>, <<"Work">>, <<"", "Work">>,
    <<"Personal", "", "Work">> }

\* the calendar whose search fails, if any
ProbeOutages == {"none", "Personal", "Work", "", "all"}

\* the (start_date, end_date) of a call, start_date <= end_date
ProbeRanges ==
  { <<a, b>> \in ((ProbeDay - MaxSpan)..(ProbeDay + MaxSpan))
                   \X ((ProbeDay - MaxSpan)..(ProbeDay + MaxSpan)) : a <= b }

FnInit ==
  /\ CalRest /\ SelRest /\ BcRest /\ SchedRest /\ AuthRest /\ StrRest
  /\ probe = NoProbe

\* the loop of _fetch_events_from_caldav over the selected calendars
PFetch ==
  /\ probe.op = "none"
  /\ \E up \in SUBSET ProbeEvents, out \in ProbeOutages, cals \in ProbeSelections,
     r \in ProbeRanges :
       probe' = [op |-> "fetch", up |-> up, out |-> out, cals |-> cals,
                 s |-> r[1], e |-> r[2],
                 res |-> FetchLoop(up, out, cals, r[1], r[2])]
  /\ UNCHANGED <<calVars, selVars, bcVars, schedVars, authVars, strVars>>

\* the metadata windows a call may find: none, or [cache_start, cache_end]
\* as a refresh writes it
ProbeWindows ==
  { [has |-> FALSE, cs |-> 0, ce |-> 0] }
    \cup { [has |-> TRUE, cs |-> w[1], ce |-> w[2]] :
             w \in { x \in ((ProbeDay - MaxSpan + 1)..(ProbeDay + MaxSpan - 1))
                              \X ((ProbeDay - MaxSpan + 1)..(ProbeDay + MaxSpan - 1)) :
                        x[1] <= x[2] } }

\* the sub-ranges of fetch_ical_events for one window and one request
PSplit ==
  /\ probe.op = "none"
  /\ \E m \in ProbeWindows, r \in ProbeRanges :
       probe' = [op |-> "split", m |-> m, s |-> r[1], e |-> r[2],
                 res |-> SubRanges(m, r[1], r[2])]
  /\ UNCHANGED <<calVars, selVars, bcVars, schedVars, authVars, strVars>>

\* the caller has the result
PReturn ==
  /\ probe.op # "none"
  /\ probe' = NoProbe
  /\ UNCHANGED <<calVars, selVars, bcVars, schedVars, authVars, strVars>>

FnNext ==
  \/ PFetch
  \/ PSplit
  \/ PReturn

SpecFn == FnInit /\ [][FnNext]_vars

\* the search on calendar c of the call in probe failed
SearchFailed(c) == probe.out \in {"all", c}

\* the entries of calendar c a fetch for [s, e] is to deliver
InRangeOf(c) ==
  { ev \in probe.up : /\ ev.cal = c /\ ev.title # Unparsable
                       /\ probe.s <= DateOf(ev.start) /\ DateOf(ev.start) <= probe.e }

\* C33: in a fetch over several selected calendars, a search that fails on
\* one calendar or an entry that cannot be parsed does not abort the fetch:
\* the result holds every in-range entry of every selected calendar whose
\* search answered, tagged with the name of that calendar, and nothing of a
\* calendar whose search failed.
C33_FaultIsolation ==
  probe.op = "fetch" =>
    /\ \A c \in Range(probe.cals) : ~SearchFailed(c) =>
          \A ev \in InRangeOf(c) :
            \E i \in DOMAIN probe.res :
              /\ probe.res[i].title = ev.title /\ probe.res[i].start = ev.start
              /\ probe.res[i].end = ev.end
              /\ c # "" => probe.res[i].cal = c
    /\ \A i \in DOMAIN probe.res :
          /\ probe.res[i].title # Unparsable
          /\ \E c \in Range(probe.cals) :
                /\ ~SearchFailed(c)
                /\ [probe.res[i] EXCEPT !.cal = c] \in InRangeOf(c)

C33_Witness ==
  /\ probe.op = "fetch" /\ probe.out = "Work" /\ probe.cals = <<"Work", "Personal">>
  /\ InRangeOf("Work") # {} /\ InRangeOf("Personal") # {}
  /\ Len(probe.res) = 1 /\ probe.res[1].cal = "Personal"

C33_WitnessUnparsable ==
  /\ probe.op = "fetch" /\ probe.out = "none" /\ probe.cals = <<"Work", "Personal">>
  /\ \E ev \in probe.up :
       ev.title = Unparsable /\ probe.s < DateOf(ev.start) /\ DateOf(ev.start) < probe.e
  /\ Len(probe.res) = 3
  /\ {probe.res[i].cal : i \in DOMAIN probe.res} = {"Work", "Personal"}

\* the dates of a list of no or one range
DatesOf(rs) == UNION { rs[i][1]..rs[i][2] : i \in DOMAIN rs }

\* C36: for a window [cache_start, cache_end] and a request [start_date,
\* end_date] with start_date <= end_date that is not a full hit, the pre-range,
\* the overlap and the post-range are pairwise disjoint, each one computed has
\* its lower bound <= its upper bound, together they are exactly [start_date,
\* end_date], the pre- and post-range hold no date of the window and the
\* overlap only dates of the window.
C36_SubRangePartition ==
  (probe.op = "split" /\ probe.res.kind = "partial") =>
    LET pre == probe.res.pre
        ov == probe.res.overlap
        post == probe.res.post
        window == probe.m.cs..probe.m.ce
    IN /\ \A part \in {pre, ov, post} :
            /\ Len(part) <= 1
            /\ \A i \in DOMAIN part : part[i][1] <= part[i][2]
       /\ DatesOf(pre) \cap DatesOf(ov) = {}
       /\ DatesOf(pre) \cap DatesOf(post) = {}
       /\ DatesOf(ov) \cap DatesOf(post) = {}
       /\ DatesOf(pre) \cup DatesOf(ov) \cup DatesOf(post) = probe.s..probe.e
       /\ DatesOf(pre) \cap window = {}
       /\ DatesOf(post) \cap window = {}
       /\ DatesOf(ov) \subseteq window

C36_Witness ==
  /\ probe.op = "split" /\ probe.res.kind = "partial"
  /\ probe.s < probe.m.cs /\ probe.m.cs < probe.m.ce /\ probe.m.ce < probe.e
  /\ Len(probe.res.pre) = 1 /\ Len(probe.res.overlap) = 1 /\ Len(probe.res.post) = 1

C36_WitnessDisjoint ==
  /\ probe.op = "split" /\ probe.res.kind = "partial"
  /\ probe.e < probe.m.cs
  /\ probe.res.pre = << <<probe.s, probe.e>> >>
  /\ probe.res.overlap = <<>> /\ probe.res.post = <<>>


====
